---- MODULE Spec2Model ----
(***************************************************************************)
(* xwspio: espionage-report extraction (parser.parse_espionage_report) and *)
(* reconciliation into the relational store (parser.process_reports over   *)
(* the tables of database.py).                                             *)
(*                                                                         *)
(* Text is a sequence of one-character strings.  A Python float is the     *)
(* exact decimal [num, den] (den a power of ten, no trailing zero digit),  *)
(* which is what float() yields for the short decimal texts used here.     *)
(* A Python dict is a function whose DOMAIN is its key set; the three row  *)
(* dicts that process_reports iterates are sequences in insertion order.   *)
(***************************************************************************)
EXTENDS Integers, Sequences, FiniteSets, TLC

VARIABLES
    db,         \* the committed tables of the database (database.py)
    session,    \* "active", or "inactive" after a flush failed inside commit()
    pc,         \* position of process_reports inside its for-loop body
    now,        \* number of documents fetched so far; the clock value of datetime.now
    report,     \* local `report` of process_reports
    alliance,   \* local `alliance`: id of the Alliance row, 0 for None
    player,     \* local `player`: id of the Player row
    planet,     \* local `planet`: id of the Planet row
    idx,        \* position of the running for-loop over resources/buildings/researches
    before,     \* the committed tables when the current document was fetched
    lastLog,    \* the last line handed to logging
    logged,     \* number of documents that ended with a logging call
    raised,     \* TRUE once an exception has left process_reports
    corpus,     \* what the extractor returns for the documents behind the URLs
    value,      \* value-text check: the text of a resource value cell
    vpc,        \* value-text check: position
    vresult,    \* value-text check: what was extracted and stored
    doc,        \* extraction check: the td cells and tables of one document
    epc,        \* extraction check: position
    eresult,    \* extraction check: report_data as returned
    runs,       \* two-run check: each run's position, locals and loaded rows
    ui          \* the interactive loop of main.py: position, input, output

vars == <<db, session, pc, now, report, alliance, player, planet, idx,
          before, lastLog, logged, raised, corpus, value, vpc, vresult,
          doc, epc, eresult, runs, ui>>

reconcileVars == <<db, session, pc, now, report, alliance, player, planet, idx,
                   before, lastLog, logged, raised>>

valueVars == <<value, vpc, vresult>>

extractVars == <<doc, epc, eresult>>

\* what process_reports leaves alone
reconcileFrame == <<corpus, valueVars, extractVars, runs, ui>>

\* what the handling of one value cell leaves alone
valueFrame == <<corpus, reconcileVars, extractVars, runs, ui>>

\* what parse_espionage_report leaves alone
extractFrame == <<corpus, reconcileVars, valueVars, runs, ui>>

\* what the two runs leave alone
raceFrame == <<session, pc, report, alliance, player, planet, idx, before,
               lastLog, logged, raised, corpus, valueVars, extractVars, ui>>

\* what the interactive loop leaves alone
menuFrame == <<pc, report, alliance, player, planet, idx, before, lastLog,
               logged, raised, corpus, valueVars, extractVars, runs>>

----------------------------------------------------------------------------
(* Bounds *)

\* documents handed to process_reports in one run of the model
MaxDocs == 3

\* longest enumerated resource value text
MaxValueLen == 3

\* the number of times "Update Reports" is given a URL in one program run
MaxUpdates == 2

----------------------------------------------------------------------------
(* Text and float() *)

Digits == {"0", "1", "2", "3", "4", "5", "6", "7", "8", "9"}

DigitVal(c) ==
    CASE c = "0" -> 0 [] c = "1" -> 1 [] c = "2" -> 2 [] c = "3" -> 3
      [] c = "4" -> 4 [] c = "5" -> 5 [] c = "6" -> 6 [] c = "7" -> 7
      [] c = "8" -> 8 [] c = "9" -> 9

\* str.strip(): leading and trailing blanks removed
RECURSIVE LStrip(_)
LStrip(s) == IF s # <<>> /\ Head(s) = " " THEN LStrip(Tail(s)) ELSE s

RECURSIVE RStrip(_)
RStrip(s) ==
    IF s # <<>> /\ s[Len(s)] = " " THEN RStrip(SubSeq(s, 1, Len(s) - 1)) ELSE s

Strip(s) == LStrip(RStrip(s))

\* str.replace(old, new) for single characters
Replace(s, old, new) == [i \in 1..Len(s) |-> IF s[i] = old THEN new ELSE s[i]]

\* str.replace(old, ''): every occurrence removed
RECURSIVE Remove(_, _)
Remove(s, old) ==
    IF s = <<>> THEN <<>>
    ELSE IF Head(s) = old THEN Remove(Tail(s), old)
    ELSE <<Head(s)>> \o Remove(Tail(s), old)

Count(s, c) == Cardinality({i \in 1..Len(s) : s[i] = c})

\* index of the first occurrence of c in s (c occurs in s)
Find(s, c) == CHOOSE i \in 1..Len(s) : s[i] = c /\ \A j \in 1..(i - 1) : s[j] # c

\* str.split(sep) for a single-character separator
RECURSIVE Split(_, _)
Split(s, sep) ==
    IF Count(s, sep) = 0 THEN <<s>>
    ELSE <<SubSeq(s, 1, Find(s, sep) - 1)>>
         \o Split(SubSeq(s, Find(s, sep) + 1, Len(s)), sep)

RECURSIVE DigitsValue(_)
DigitsValue(s) ==
    IF s = <<>> THEN 0
    ELSE 10 * DigitsValue(SubSeq(s, 1, Len(s) - 1)) + DigitVal(s[Len(s)])

RECURSIVE Pow10(_)
Pow10(n) == IF n = 0 THEN 1 ELSE 10 * Pow10(n - 1)

RECURSIVE Normal(_)
Normal(f) ==
    IF f.num = 0 THEN [num |-> 0, den |-> 1]
    ELSE IF f.den > 1 /\ f.num % 10 = 0
         THEN Normal([num |-> f.num \div 10, den |-> f.den \div 10])
    ELSE f

Float(num, den) == Normal([num |-> num, den |-> den])

\* the unsigned decimal forms float() accepts: digits, at most one dot, at
\* least one digit (exponents, underscores, inf and nan need characters that
\* no text of the model contains)
IsDecimal(s) ==
    /\ \A i \in 1..Len(s) : s[i] \in Digits \cup {"."}
    /\ Count(s, ".") <= 1
    /\ \E i \in 1..Len(s) : s[i] \in Digits

Unsigned(s) ==
    LET d == Remove(s, ".")
        frac == IF Count(s, ".") = 0 THEN 0 ELSE Len(s) - Find(s, ".")
    IN  Float(DigitsValue(d), Pow10(frac))

\* float(text): [ok |-> FALSE] stands for ValueError
ToFloat(text) ==
    LET s == Strip(text)
        signed == s # <<>> /\ Head(s) \in {"-", "+"}
        body == IF signed THEN Tail(s) ELSE s
    IN  IF ~IsDecimal(body) THEN [ok |-> FALSE, val |-> Float(0, 1)]
        ELSE [ok |-> TRUE,
              val |-> IF signed /\ Head(s) = "-"
                      THEN Float(0 - Unsigned(body).num, Unsigned(body).den)
                      ELSE Unsigned(body)]

FloatLess(a, b) == a.num * b.den < b.num * a.den

----------------------------------------------------------------------------
(* parse_espionage_report: a resource value cell *)

\* the value of a resource label: {"total": text, "raidable": text};
\* raises stands for the ValueError of unpacking value.split('(') into two names
ResourceValue(text) ==
    LET v == Strip(text)
        parts == Split(v, "(")
    IN  IF Count(v, "(") > 0
        THEN IF Len(parts) # 2
             THEN [raises |-> TRUE, total |-> <<>>, raidable |-> <<>>]
             ELSE [raises |-> FALSE,
                   total |-> Replace(Strip(parts[1]), ",", "."),
                   raidable |-> Replace(Strip(Remove(parts[2], ")")), ",", ".")]
        ELSE [raises |-> FALSE,
              total |-> Replace(Strip(v), ",", "."),
              raidable |-> <<"0">>]

\* float(res_values[k]) with its except ValueError: 0.0
FloatOrZero(text) == IF ToFloat(text).ok THEN ToFloat(text).val ELSE Float(0, 1)

----------------------------------------------------------------------------
(* parse_espionage_report: the document and the extraction rules *)

\* A document is what BeautifulSoup finds in it: its td cells in document
\* order, each with its class, whether it carries colspan="4" width="90%",
\* the number of the fingerprinted table it lies in (0: none) and its
\* get_text(strip=True); and the number of its fingerprinted tables.
\* A dict of report_data is the sequence of its items in insertion order.

Quote == "\""

Unknown == <<"U", "n", "k", "n", "o", "w", "n">>

Unnamed == <<"U", "n", "n", "a", "m", "e", "d">>

PlanetInformation == <<"P", "l", "a", "n", "e", "t", " ", "i", "n", "f", "o", "r", "m", "a", "t", "i", "o", "n", " ">>

Uppercase == <<"A", "B", "C", "D", "E", "F", "G", "H", "I", "J", "K", "L", "M", "N", "O", "P", "Q", "R", "S", "T", "U", "V", "W", "X", "Y", "Z">>

Lowercase == <<"a", "b", "c", "d", "e", "f", "g", "h", "i", "j", "k", "l", "m", "n", "o", "p", "q", "r", "s", "t", "u", "v", "w", "x", "y", "z">>

\* str.lower() on the letters A-Z
Lower(s) ==
    [i \in 1..Len(s) |->
        IF \E k \in 1..26 : Uppercase[k] = s[i]
        THEN Lowercase[CHOOSE k \in 1..26 : Uppercase[k] = s[i]]
        ELSE s[i]]

StartsWith(s, pre) == Len(s) >= Len(pre) /\ SubSeq(s, 1, Len(pre)) = pre

\* str.replace(old, ''): every occurrence of the text old removed
RECURSIVE RemoveText(_, _)
RemoveText(s, old) ==
    IF s = <<>> THEN <<>>
    ELSE IF StartsWith(s, old) THEN RemoveText(SubSeq(s, Len(old) + 1, Len(s)), old)
    ELSE <<Head(s)>> \o RemoveText(Tail(s), old)

\* str.strip('"')
RECURSIVE StripQuotes(_)
StripQuotes(s) ==
    IF s # <<>> /\ Head(s) = Quote THEN StripQuotes(Tail(s))
    ELSE IF s # <<>> /\ s[Len(s)] = Quote
         THEN StripQuotes(SubSeq(s, 1, Len(s) - 1))
    ELSE s

\* the position after the longest run of \s (of \d) that starts at i
RECURSIVE SkipSpace(_, _)
SkipSpace(s, i) == IF i <= Len(s) /\ s[i] = " " THEN SkipSpace(s, i + 1) ELSE i

RECURSIVE SkipDigits(_, _)
SkipDigits(s, i) == IF i <= Len(s) /\ s[i] \in Digits THEN SkipDigits(s, i + 1) ELSE i

At(s, i, c) == i <= Len(s) /\ s[i] = c

\* \s*-\s*(\d+x\d+x\d+)" matched at position i: CoordsStart is where group 2
\* begins, CoordsEnd the position of the closing quote, 0 without match
CoordsStart(s, i) == SkipSpace(s, SkipSpace(s, i) + 1)

CoordsEnd(s, i) ==
    LET a == SkipSpace(s, i)
        b == CoordsStart(s, i)
        c == SkipDigits(s, b)
        d == SkipDigits(s, c + 1)
        e == SkipDigits(s, d + 1)
    IN  IF /\ At(s, a, "-") /\ c > b /\ At(s, c, "x")
           /\ d > c + 1 /\ At(s, d, "x") /\ e > d + 1 /\ At(s, e, Quote)
        THEN e ELSE 0

\* faulty variant of IdentityName: the name is not trimmed
IdentityNameRaw(name) == IF name # <<>> THEN name ELSE Unnamed

\* line 29: name.strip() if name else "Unnamed"
IdentityName(name) == IF name # <<>> THEN Strip(name) ELSE Unnamed

\* lines 26-34: re.match(r'"(.*?)\s*-\s*(\d+x\d+x\d+)"', planet_text); the
\* lazy group 1 is the shortest text after which the rest matches
MatchIdentity(text) ==
    LET ends == {k \in 1..Len(text) : CoordsEnd(text, k + 1) # 0}
        k == CHOOSE n \in ends : \A o \in ends : n <= o
    IN  IF At(text, 1, Quote) /\ ends # {}
        THEN [name |-> IdentityName(SubSeq(text, 2, k)),
              coordinates |-> SubSeq(text, CoordsStart(text, k + 1),
                                     CoordsEnd(text, k + 1) - 1)]
        ELSE [name |-> Unnamed, coordinates |-> StripQuotes(text)]

IdentityCells(d) ==
    {i \in 1..Len(d.cells) : d.cells[i].class = "second" /\ d.cells[i].ident}

\* lines 22-37
PlanetIdentity(d) ==
    IF IdentityCells(d) # {}
    THEN MatchIdentity(
            RemoveText(d.cells[CHOOSE i \in IdentityCells(d) :
                                   \A j \in IdentityCells(d) : i <= j].text,
                       PlanetInformation))
    ELSE [name |-> Unknown, coordinates |-> Unknown]

KeyName == <<"n", "a", "m", "e">>

KeyCoordinates == <<"c", "o", "o", "r", "d", "i", "n", "a", "t", "e", "s">>

PlayerKeys == {<<"o", "w", "n", "e", "r">>, <<"r", "a", "c", "e">>, <<"a", "l", "l", "i", "a", "n", "c", "e">>}

NumberKeys == {<<"a", "t", "t", "a", "c", "k">>, <<"d", "e", "f", "e", "n", "s", "e">>}

InfoKeys ==
    NumberKeys \cup {<<"t", "e", "m", "p", "e", "r", "a", "t", "u", "r", "e">>,
                     <<"p", "l", "a", "n", "e", "t", " ", "t", "y", "p", "e">>,
                     <<"i", "n", "v", "a", "s", "i", "o", "n", " ", "p", "r", "o", "t", "e", "c", "t", "i", "o", "n">>}

ResourceKeys ==
    {<<"p", "i", "g", "-", "i", "r", "o", "n">>, <<"c", "r", "y", "s", "t", "a", "l", "s">>,
     <<"f", "r", "u", "b", "i", "n">>, <<"o", "r", "i", "z", "i", "n">>,
     <<"f", "r", "u", "r", "o", "z", "i", "n">>, <<"g", "o", "l", "d">>}

\* lines 51-55: the leading digits of the value, 0 without any
LeadingInt(v) == DigitsValue(SubSeq(v, 1, SkipDigits(v, 1) - 1))

\* d[key] = val
Assign(d, key, val) ==
    IF \E i \in 1..Len(d) : d[i].key = key
    THEN [i \in 1..Len(d) |-> IF d[i].key = key THEN [key |-> key, val |-> val]
                                                 ELSE d[i]]
    ELSE Append(d, [key |-> key, val |-> val])

\* lines 42-69 for the cell at position i: report_data after it; raises names
\* the exception that ends the extraction ("" for none)
Detail(r, d, i) ==
    LET label == d.cells[i].text
        val == d.cells[i + 1].text
        key == Lower(SubSeq(label, 1, Len(label) - 1))
    IN  IF ~(d.cells[i].class \in {"first", "second"} /\ label # <<>>
             /\ label[Len(label)] = ":")
        THEN r
        ELSE IF i = Len(d.cells) THEN [r EXCEPT !.raises = "AttributeError"]
        ELSE IF key \in PlayerKeys
            THEN [r EXCEPT !.player_details = Assign(@, key, val)]
        ELSE IF key \in NumberKeys
            THEN [r EXCEPT !.planet_info = Assign(@, key, LeadingInt(val))]
        ELSE IF key \in InfoKeys
            THEN [r EXCEPT !.planet_info = Assign(@, key, val)]
        ELSE IF key \in ResourceKeys
            THEN IF ResourceValue(val).raises
                 THEN [r EXCEPT !.raises = "ValueError"]
                 ELSE [r EXCEPT !.resources =
                          Assign(@, key, [total |-> ResourceValue(val).total,
                                          raidable |-> ResourceValue(val).raidable])]
        ELSE r

\* lines 40-69: the loop over the cells from position i on
RECURSIVE Details(_, _, _)
Details(r, d, i) ==
    IF i > Len(d.cells) \/ r.raises # "" THEN r
    ELSE Details(Detail(r, d, i), d, i + 1)

\* faulty variant of LevelSplit: (.+)(\d+)$, no \s between name and level
LevelSplitNoSpace(text) ==
    LET at == {p \in 2..(Len(text) - 1) : SkipDigits(text, p + 1) = Len(text) + 1}
    IN  IF at = {} THEN 0 ELSE CHOOSE p \in at : \A q \in at : q <= p

\* re.match(r"(.+)\s(\d+)$", text): the position of the \s, 0 without match
LevelSplit(text) ==
    LET at == {p \in 2..(Len(text) - 1) :
                  text[p] = " " /\ SkipDigits(text, p + 1) = Len(text) + 1}
    IN  IF at = {} THEN 0 ELSE CHOOSE p \in at : \A q \in at : q <= p

\* lines 77-82 (86-91): the cells of fingerprinted table n, from position i on
RECURSIVE TableRows(_, _, _, _)
TableRows(rows, d, n, i) ==
    IF i > Len(d.cells) THEN rows
    ELSE LET c == d.cells[i]
             p == LevelSplit(c.text)
         IN  TableRows(
                IF c.table = n /\ c.class \in {"first", "second"} /\ p # 0
                THEN Assign(rows, Strip(SubSeq(c.text, 1, p - 1)),
                            DigitsValue(SubSeq(c.text, p + 1, Len(c.text))))
                ELSE rows,
                d, n, i + 1)

\* faulty variant of EnoughTables: one fingerprinted table suffices
EnoughTablesOne(d) == d.tables >= 1

\* line 74: len(tables) >= 2
EnoughTables(d) == d.tables >= 2

\* lines 11-93
parse_espionage_report(d) ==
    LET start == [raises |-> "",
                  planet_info |->
                      <<[key |-> KeyName, val |-> PlanetIdentity(d).name],
                        [key |-> KeyCoordinates,
                         val |-> PlanetIdentity(d).coordinates]>>,
                  player_details |-> <<>>,
                  resources |-> <<>>,
                  buildings |-> <<>>,
                  researches |-> <<>>]
        r == Details(start, d, 1)
    IN  IF r.raises # "" THEN r
        ELSE IF EnoughTables(d)
        THEN [r EXCEPT !.buildings = TableRows(<<>>, d, 1, 1),
                       !.researches = TableRows(<<>>, d, 2, 1)]
        ELSE r

\* no document is being extracted
ExtractOff ==
    /\ doc = [identity |-> <<>>, cells |-> <<>>, tables |-> 0]
    /\ epc = "off"
    /\ eresult = <<>>

----------------------------------------------------------------------------
(* database.py: the tables.  A row is a record; id 0 stands for NULL. *)

EmptyDb ==
    [alliances |-> {}, players |-> {}, planets |-> {},
     resources |-> {}, buildings |-> {}, researches |-> {}]

\* the INTEGER PRIMARY KEY that SQLite gives the next inserted row
NextId(table) ==
    IF table = {} THEN 1
    ELSE 1 + (CHOOSE n \in {r.id : r \in table} : \A r \in table : r.id <= n)

\* Query.first(): the matching row of lowest rowid
First(rows) == CHOOSE r \in rows : \A q \in rows : r.id <= q.id

\* dict.get(key, default)
Get(d, key, default) == IF key \in DOMAIN d THEN d[key] ELSE default

\* faulty variant of Update: the table keeps the updated row only
UpdateAlone(table, id, new) == {new}

\* an UPDATE of the row with this id
Update(table, id, new) == {IF r.id = id THEN new ELSE r : r \in table}

----------------------------------------------------------------------------
(* process_reports: the merge steps, as functions of the tables *)

\* faulty variant of PlayerName: a sentinel of its own for every planet
PlayerNamePerPlanet(rep) ==
    Get(rep.player_details, "owner", Get(rep.planet_info, "coordinates", "Unknown"))

\* lines 104-106: the defaults of the three player details
PlayerName(rep) == Get(rep.player_details, "owner", "Unknown")

Race(rep) == Get(rep.player_details, "race", "Unknown")

AllianceName(rep) == Get(rep.player_details, "alliance", "None")

Coordinates(rep) == Get(rep.planet_info, "coordinates", "Unknown")

AllianceRows(d, rep) == {a \in d.alliances : a.name = AllianceName(rep)}

\* lines 109-116, without the commit: the tables after session.add, and the
\* local `alliance`
AllianceStep(d, rep) ==
    IF AllianceName(rep) # "None"
    THEN IF AllianceRows(d, rep) = {}
         THEN [db |-> [d EXCEPT !.alliances =
                          @ \cup {[id |-> NextId(d.alliances),
                                   name |-> AllianceName(rep)]}],
               alliance |-> NextId(d.alliances)]
         ELSE [db |-> d, alliance |-> First(AllianceRows(d, rep)).id]
    ELSE [db |-> d, alliance |-> 0]

PlayerRows(d, rep) == {p \in d.players : p.name = PlayerName(rep)}

\* faulty variant of PlayerUpdate: player.race = race left out
PlayerUpdateKeepRace(row, rep, all, t) ==
    [row EXCEPT !.alliance_id = all, !.last_update = t]

\* lines 131-133: the fields an existing player gets
PlayerUpdate(row, rep, all, t) ==
    [row EXCEPT !.race = Race(rep), !.alliance_id = all, !.last_update = t]

\* lines 119-134, without the commit
PlayerStep(d, rep, all, t) ==
    IF PlayerRows(d, rep) = {}
    THEN [db |-> [d EXCEPT !.players =
                     @ \cup {[id |-> NextId(d.players),
                              name |-> PlayerName(rep),
                              race |-> Race(rep),
                              alliance_id |-> all,
                              last_update |-> t]}],
          player |-> NextId(d.players)]
    ELSE LET row == First(PlayerRows(d, rep))
         IN  [db |-> [d EXCEPT !.players =
                         Update(@, row.id, PlayerUpdate(row, rep, all, t))],
              player |-> row.id]

PlanetRows(d, rep) == {p \in d.planets : p.coordinates = Coordinates(rep)}

\* faulty variant of PlanetCreate: player=player left out of the constructor
PlanetCreateNoOwner(id, rep, pl) ==
    [id |-> id,
     name |-> Get(rep.planet_info, "name", "Unknown"),
     coordinates |-> Coordinates(rep),
     temperature |-> Get(rep.planet_info, "temperature", "Unknown"),
     planet_type |-> Get(rep.planet_info, "planet type", "Unknown"),
     attack |-> Get(rep.planet_info, "attack", 0),
     defense |-> Get(rep.planet_info, "defense", 0),
     invasion_protection |-> Get(rep.planet_info, "invasion protection", "Unknown"),
     player_id |-> 0]

\* lines 140-149: the new Planet
PlanetCreate(id, rep, pl) ==
    [id |-> id,
     name |-> Get(rep.planet_info, "name", "Unknown"),
     coordinates |-> Coordinates(rep),
     temperature |-> Get(rep.planet_info, "temperature", "Unknown"),
     planet_type |-> Get(rep.planet_info, "planet type", "Unknown"),
     attack |-> Get(rep.planet_info, "attack", 0),
     defense |-> Get(rep.planet_info, "defense", 0),
     invasion_protection |-> Get(rep.planet_info, "invasion protection", "Unknown"),
     player_id |-> pl]

\* faulty variant of PlanetUpdate: a field the report lacks is kept
PlanetUpdateKeep(row, rep, pl) ==
    [row EXCEPT
        !.name = Get(rep.planet_info, "name", @),
        !.temperature = Get(rep.planet_info, "temperature", @),
        !.planet_type = Get(rep.planet_info, "planet type", @),
        !.attack = Get(rep.planet_info, "attack", @),
        !.defense = Get(rep.planet_info, "defense", @),
        !.invasion_protection = Get(rep.planet_info, "invasion protection", @)]

\* lines 154-159: the fields an existing planet gets; planet.player is not
\* among the assignments
PlanetUpdate(row, rep, pl) ==
    [row EXCEPT
        !.name = Get(rep.planet_info, "name", "Unknown"),
        !.temperature = Get(rep.planet_info, "temperature", "Unknown"),
        !.planet_type = Get(rep.planet_info, "planet type", "Unknown"),
        !.attack = Get(rep.planet_info, "attack", 0),
        !.defense = Get(rep.planet_info, "defense", 0),
        !.invasion_protection =
            Get(rep.planet_info, "invasion protection", "Unknown")]

\* lines 137-160, without the commit
PlanetStep(d, rep, pl) ==
    IF PlanetRows(d, rep) = {}
    THEN [db |-> [d EXCEPT !.planets =
                     @ \cup {PlanetCreate(NextId(d.planets), rep, pl)}],
          planet |-> NextId(d.planets)]
    ELSE LET row == First(PlanetRows(d, rep))
         IN  [db |-> [d EXCEPT !.planets =
                         Update(@, row.id, PlanetUpdate(row, rep, pl))],
              planet |-> row.id]

\* faulty variant of ResourceRows: the lookup of get-or-create finds nothing
ResourceRowsNoLookup(d, type, pn) == {}

ResourceRows(d, type, pn) ==
    {r \in d.resources : r.type = type /\ r.planet_id = pn}

\* lines 182-189: the fields an existing resource row gets
ResourceUpdate(row, line) ==
    [row EXCEPT !.total = FloatOrZero(line.total),
                !.raidable = FloatOrZero(line.raidable)]

\* lines 164-189: one iteration of the resources loop, without the commit
ResourceStep(d, line, pn) ==
    IF ResourceRows(d, line.type, pn) = {}
    THEN [d EXCEPT !.resources =
             @ \cup {[id |-> NextId(d.resources),
                      type |-> line.type,
                      total |-> FloatOrZero(line.total),
                      raidable |-> FloatOrZero(line.raidable),
                      planet_id |-> pn]}]
    ELSE LET row == First(ResourceRows(d, line.type, pn))
         IN  [d EXCEPT !.resources = Update(@, row.id, ResourceUpdate(row, line))]

\* faulty variant of BuildingRows: the lookup ignores the planet
BuildingRowsAnyPlanet(d, name, pn) == {r \in d.buildings : r.name = name}

BuildingRows(d, name, pn) ==
    {b \in d.buildings : b.name = name /\ b.planet_id = pn}

\* faulty variant of BuildingLevel: the research rule applied to buildings
BuildingLevelMonotone(stored, new) == IF new > stored THEN new ELSE stored

\* line 203: the level an existing building row gets
BuildingLevel(stored, new) == new

\* lines 194-203: one iteration of the buildings loop, without the commit
BuildingStep(d, line, pn) ==
    IF BuildingRows(d, line.name, pn) = {}
    THEN [d EXCEPT !.buildings =
             @ \cup {[id |-> NextId(d.buildings),
                      name |-> line.name,
                      level |-> line.level,
                      planet_id |-> pn]}]
    ELSE LET row == First(BuildingRows(d, line.name, pn))
         IN  [d EXCEPT !.buildings =
                 Update(@, row.id,
                        [row EXCEPT !.level = BuildingLevel(row.level, line.level)])]

\* faulty variant of ResearchRows: the lookup of get-or-create finds nothing
ResearchRowsNoLookup(d, name, pl) == {}

ResearchRows(d, name, pl) ==
    {r \in d.researches : r.name = name /\ r.player_id = pl}

\* faulty variant of ResearchLevel: the comparison dropped
ResearchLevelOverwrite(stored, new) == new

\* lines 217-218: the level an existing research row gets
ResearchLevel(stored, new) == IF new > stored THEN new ELSE stored

\* lines 208-218: one iteration of the researches loop, without the commit
ResearchStep(d, line, pl) ==
    IF ResearchRows(d, line.name, pl) = {}
    THEN [d EXCEPT !.researches =
             @ \cup {[id |-> NextId(d.researches),
                      name |-> line.name,
                      level |-> line.level,
                      player_id |-> pl]}]
    ELSE LET row == First(ResearchRows(d, line.name, pl))
         IN  [d EXCEPT !.researches =
                 Update(@, row.id,
                        [row EXCEPT !.level = ResearchLevel(row.level, line.level)])]

----------------------------------------------------------------------------
(* The documents of the model: what parse_espionage_report returns for them *)

\* report_data["resources"][key] for a value cell
ResLine(type, text) ==
    [type |-> type,
     total |-> ResourceValue(text).total,
     raidable |-> ResourceValue(text).raidable]

FullInfo(name, coordinates) ==
    [name |-> name, coordinates |-> coordinates, temperature |-> "20 C",
     attack |-> 5, defense |-> 7]
    @@ ("planet type" :> "Ice") @@ ("invasion protection" :> "Yes")

RepA ==
    [player_details |-> [owner |-> "Zaphod", race |-> "Human", alliance |-> "Vogons"],
     planet_info |-> FullInfo("Heart", "12x34x56"),
     resources |-> <<ResLine("gold", <<"5", "0", "0", "(", "1", "0", "0", ")">>)>>,
     buildings |-> <<[name |-> "Mine", level |-> 3]>>,
     researches |-> <<[name |-> "Laser", level |-> 2]>>]

RepB ==
    [player_details |-> [owner |-> "Zaphod", race |-> "Human"],
     planet_info |-> [name |-> "Heart", coordinates |-> "12x34x56"],
     resources |-> <<ResLine("gold", <<"2", "0", "0", "(", "5", "0", ")">>)>>,
     buildings |-> <<[name |-> "Mine", level |-> 1]>>,
     researches |-> <<[name |-> "Laser", level |-> 1]>>]

RepC ==
    [player_details |-> [owner |-> "Ford", race |-> "Betelgeusian",
                         alliance |-> "Vogons"],
     planet_info |-> [name |-> "Gold", coordinates |-> "12x34x56", attack |-> 9],
     resources |-> <<ResLine("gold", <<"n", "/", "a">>)>>,
     buildings |-> <<>>,
     researches |-> <<[name |-> "Laser", level |-> 3]>>]

RepD ==
    [player_details |-> [owner |-> "Zaphod", race |-> "Human", alliance |-> "Vogons"],
     planet_info |-> FullInfo("Moon", "1x2x3"),
     resources |->
        <<ResLine("gold", <<"1", ".", "2", "3", "4", ",", "5", "(",
                            "2", "3", "4", ",", "5", ")">>),
          ResLine("crystals", <<"1", "2", ",", "5", "(", "2", ",", "5", ")">>)>>,
     buildings |-> <<[name |-> "Mine", level |-> 2]>>,
     researches |-> <<[name |-> "Laser", level |-> 3],
                      [name |-> "Warp", level |-> 1]>>]

\* a document with no identity cell, no label and no table
RepE ==
    [player_details |-> <<>>,
     planet_info |-> [name |-> "Unknown", coordinates |-> "Unknown"],
     resources |-> <<>>, buildings |-> <<>>, researches |-> <<>>]

RepF ==
    [player_details |-> [owner |-> "Ford", race |-> "Betelgeusian"],
     planet_info |-> [name |-> "Moon", coordinates |-> "1x2x3", defense |-> 2],
     resources |-> <<ResLine("gold", <<"9", "0", "0">>)>>,
     buildings |-> <<[name |-> "Mine", level |-> 5]>>,
     researches |-> <<[name |-> "Laser", level |-> 1]>>]

Reports == {RepA, RepB, RepC, RepD, RepE, RepF}

\* an Alliance label whose value cell is empty
RepG ==
    [player_details |-> [owner |-> "Ford", race |-> "Betelgeusian", alliance |-> ""],
     planet_info |-> [name |-> "Moon", coordinates |-> "1x2x3"],
     resources |-> <<>>,
     buildings |-> <<>>,
     researches |-> <<[name |-> "Laser", level |-> 1]>>]

\* no Owner label
RepH ==
    [player_details |-> [race |-> "Vogon", alliance |-> "Vogons"],
     planet_info |-> [name |-> "Base", coordinates |-> "7x8x9"],
     resources |-> <<>>,
     buildings |-> <<>>,
     researches |-> <<[name |-> "Laser", level |-> 2]>>]

\* no Owner, Race or Alliance label and no identity cell
RepI ==
    [player_details |-> <<>>,
     planet_info |-> [name |-> "Unknown", coordinates |-> "Unknown"],
     resources |-> <<>>,
     buildings |-> <<>>,
     researches |-> <<[name |-> "Laser", level |-> 1],
                      [name |-> "Warp", level |-> 2]>>]

\* documents with missing or empty labels
LabelReports == {RepA, RepB, RepE, RepG, RepH, RepI}

NoReport == RepE

----------------------------------------------------------------------------
(* process_reports: control flow *)

\* what a statement of the try block can raise: from requests.get, from the
\* extractor (AttributeError of find_next(...) being None, ValueError of the
\* unpacking), from a flush inside session.commit(), and from a session whose
\* transaction was left inactive by a failed flush
FetchErrors == {"ConnectionError"}

ExtractionErrors == {"AttributeError", "ValueError"}

FlushErrors == {"IntegrityError", "OperationalError"}

Exceptions ==
    FetchErrors \cup ExtractionErrors \cup FlushErrors \cup {"PendingRollbackError"}

\* faulty variant of Caught: except ValueError
CaughtValueError(exc) == exc = "ValueError"

\* line 225: except Exception
Caught(exc) == exc \in Exceptions

Line(level, what, rep) ==
    [level |-> level, what |-> what,
     player_name |-> PlayerName(rep), coordinates |-> Coordinates(rep)]

\* an exception raised at a statement of the try block: lines 225-226
Raise(exc) ==
    IF Caught(exc)
    THEN /\ lastLog' = Line("error", exc, report')
         /\ logged' = logged + 1
         /\ pc' = "fetch"
         /\ raised' = raised
    ELSE /\ raised' = TRUE
         /\ pc' = "raised"
         /\ UNCHANGED <<lastLog, logged>>

\* the statement that runs after iteration i of a loop, or after the planet
\* step (phase "planet"): the next non-empty loop, or the logging call
After(phase, i, rep) ==
    IF phase = "resources" /\ i < Len(rep.resources)
        THEN [pc |-> "resources", idx |-> i + 1]
    ELSE IF phase = "buildings" /\ i < Len(rep.buildings)
        THEN [pc |-> "buildings", idx |-> i + 1]
    ELSE IF phase = "researches" /\ i < Len(rep.researches)
        THEN [pc |-> "researches", idx |-> i + 1]
    ELSE IF phase = "planet" /\ rep.resources # <<>>
        THEN [pc |-> "resources", idx |-> 1]
    ELSE IF phase \in {"planet", "resources"} /\ rep.buildings # <<>>
        THEN [pc |-> "buildings", idx |-> 1]
    ELSE IF phase \in {"planet", "resources", "buildings"} /\ rep.researches # <<>>
        THEN [pc |-> "researches", idx |-> 1]
    ELSE [pc |-> "log", idx |-> 0]

\* session.commit() of the tables d, continuing at `next`: the flush succeeds
\* and d is committed, or it raises, the pending rows are rolled back and the
\* session's transaction stays inactive (the code never calls rollback())
Commit(d, next) ==
    \/ /\ db' = d
       /\ pc' = next.pc
       /\ idx' = next.idx
       /\ UNCHANGED <<session, lastLog, logged, raised>>
    \/ \E exc \in FlushErrors :
        /\ session' = "inactive"
        /\ UNCHANGED <<db, idx>>
        /\ Raise(exc)

\* any use of the session while its transaction is inactive
SessionUnusable ==
    /\ session # "active"
    /\ UNCHANGED <<db, session, idx>>
    /\ Raise("PendingRollbackError")

\* lines 98-101: the fetch did not answer 200
FetchFailed ==
    /\ pc = "fetch" /\ now < MaxDocs
    /\ now' = now + 1
    /\ before' = db
    /\ lastLog' = [level |-> "warning", what |-> "status",
                   player_name |-> "", coordinates |-> ""]
    /\ logged' = logged + 1
    /\ UNCHANGED <<db, session, pc, report, alliance, player, planet, idx, raised>>

\* line 98: requests.get raises
FetchRaises ==
    /\ pc = "fetch" /\ now < MaxDocs
    /\ now' = now + 1
    /\ before' = db
    /\ report' = NoReport
    /\ \E exc \in FetchErrors : Raise(exc)
    /\ UNCHANGED <<db, session, alliance, player, planet, idx>>

\* line 103: the extractor raises
ExtractRaises ==
    /\ pc = "fetch" /\ now < MaxDocs
    /\ now' = now + 1
    /\ before' = db
    /\ report' = NoReport
    /\ \E exc \in ExtractionErrors : Raise(exc)
    /\ UNCHANGED <<db, session, alliance, player, planet, idx>>

\* lines 98-106: the document is fetched and extracted
Fetch ==
    /\ pc = "fetch" /\ now < MaxDocs
    /\ now' = now + 1
    /\ before' = db
    /\ \E rep \in corpus : report' = rep
    /\ pc' = "alliance"
    /\ UNCHANGED <<db, session, alliance, player, planet, idx, lastLog, logged, raised>>

\* lines 109-116
GetOrCreateAlliance ==
    /\ pc = "alliance"
    /\ UNCHANGED <<now, report, before, player, planet>>
    /\ IF AllianceName(report) = "None"
       THEN /\ alliance' = 0
            /\ pc' = "player"
            /\ UNCHANGED <<db, session, idx, lastLog, logged, raised>>
       ELSE \/ /\ SessionUnusable
               /\ UNCHANGED alliance
            \/ /\ session = "active"
               /\ alliance' = AllianceStep(db, report).alliance
               /\ IF AllianceRows(db, report) = {}
                  THEN Commit(AllianceStep(db, report).db, [pc |-> "player", idx |-> 0])
                  ELSE /\ pc' = "player"
                       /\ UNCHANGED <<db, session, idx, lastLog, logged, raised>>

\* lines 119-134
GetOrCreatePlayer ==
    /\ pc = "player"
    /\ UNCHANGED <<now, report, before, alliance, planet>>
    /\ \/ /\ SessionUnusable
          /\ UNCHANGED player
       \/ /\ session = "active"
          /\ player' = PlayerStep(db, report, alliance, now).player
          /\ Commit(PlayerStep(db, report, alliance, now).db,
                    [pc |-> "planet", idx |-> 0])

\* lines 137-160
GetOrCreatePlanet ==
    /\ pc = "planet"
    /\ session = "active"
    /\ UNCHANGED <<now, report, before, alliance, player>>
    /\ planet' = PlanetStep(db, report, player).planet
    /\ Commit(PlanetStep(db, report, player).db, After("planet", 0, report))

\* lines 163-190: one iteration
UpdateResource ==
    /\ pc = "resources"
    /\ session = "active"
    /\ UNCHANGED <<now, report, before, alliance, player, planet>>
    /\ Commit(ResourceStep(db, report.resources[idx], planet),
              After("resources", idx, report))

\* lines 193-204: one iteration
UpdateBuilding ==
    /\ pc = "buildings"
    /\ session = "active"
    /\ UNCHANGED <<now, report, before, alliance, player, planet>>
    /\ Commit(BuildingStep(db, report.buildings[idx], planet),
              After("buildings", idx, report))

\* lines 207-219: one iteration
UpdateResearch ==
    /\ pc = "researches"
    /\ session = "active"
    /\ UNCHANGED <<now, report, before, alliance, player, planet>>
    /\ Commit(ResearchStep(db, report.researches[idx], player),
              After("researches", idx, report))

\* lines 221-223
LogProcessed ==
    /\ pc = "log"
    /\ lastLog' = Line("info", "processed", report)
    /\ logged' = logged + 1
    /\ pc' = "fetch"
    /\ UNCHANGED <<db, session, now, report, before, alliance, player, planet,
                   idx, raised>>

Init ==
    /\ db = EmptyDb
    /\ session = "active"
    /\ pc = "fetch"
    /\ now = 0
    /\ report = NoReport
    /\ alliance = 0
    /\ player = 0
    /\ planet = 0
    /\ idx = 0
    /\ before = EmptyDb
    /\ lastLog = [level |-> "", what |-> "", player_name |-> "", coordinates |-> ""]
    /\ logged = 0
    /\ raised = FALSE
    /\ corpus = Reports
    /\ value = <<>>
    /\ vpc = "off"
    /\ vresult = [raises |-> FALSE, total |-> Float(0, 1), raidable |-> Float(0, 1)]
    /\ ExtractOff
    /\ runs = <<>>
    /\ ui = <<>>

Next ==
    \/ (FetchFailed /\ UNCHANGED reconcileFrame)
    \/ (FetchRaises /\ UNCHANGED reconcileFrame)
    \/ (ExtractRaises /\ UNCHANGED reconcileFrame)
    \/ (Fetch /\ UNCHANGED reconcileFrame)
    \/ (GetOrCreateAlliance /\ UNCHANGED reconcileFrame)
    \/ (GetOrCreatePlayer /\ UNCHANGED reconcileFrame)
    \/ (GetOrCreatePlanet /\ UNCHANGED reconcileFrame)
    \/ (UpdateResource /\ UNCHANGED reconcileFrame)
    \/ (UpdateBuilding /\ UNCHANGED reconcileFrame)
    \/ (UpdateResearch /\ UNCHANGED reconcileFrame)
    \/ (LogProcessed /\ UNCHANGED reconcileFrame)

Spec == Init /\ [][Next]_vars

\* process_reports over the documents with missing or empty labels
InitLabels ==
    /\ db = EmptyDb
    /\ session = "active"
    /\ pc = "fetch"
    /\ now = 0
    /\ report = NoReport
    /\ alliance = 0
    /\ player = 0
    /\ planet = 0
    /\ idx = 0
    /\ before = EmptyDb
    /\ lastLog = [level |-> "", what |-> "", player_name |-> "", coordinates |-> ""]
    /\ logged = 0
    /\ raised = FALSE
    /\ corpus = LabelReports
    /\ value = <<>>
    /\ vpc = "off"
    /\ vresult = [raises |-> FALSE, total |-> Float(0, 1), raidable |-> Float(0, 1)]
    /\ ExtractOff
    /\ runs = <<>>
    /\ ui = <<>>

SpecLabels == InitLabels /\ [][Next]_vars

----------------------------------------------------------------------------
(* One resource value cell, from its text to the stored row *)

ValueAlphabet == {"1", ",", ".", "(", ")"}

RECURSIVE TextsUpTo(_)
TextsUpTo(n) ==
    IF n = 0 THEN {<<>>}
    ELSE TextsUpTo(n - 1)
         \cup {Append(t, c) : t \in {u \in TextsUpTo(n - 1) : Len(u) = n - 1},
                              c \in ValueAlphabet}

TextThousands ==
    <<"1", ".", "2", "3", "4", ",", "5", "(", "2", "3", "4", ",", "5", ")">>

TextNA == <<"n", "/", "a">>

TextNegative == <<"-", "5", "(", "-", "1", ")">>

ValueTexts ==
    TextsUpTo(MaxValueLen)
        \cup {TextThousands, TextNA, TextNegative, <<"5", "0", "0">>}

InitValue ==
    /\ db = EmptyDb
    /\ session = "active"
    /\ pc = "off"
    /\ now = 0
    /\ report = NoReport
    /\ alliance = 0
    /\ player = 0
    /\ planet = 0
    /\ idx = 0
    /\ before = EmptyDb
    /\ lastLog = [level |-> "", what |-> "", player_name |-> "", coordinates |-> ""]
    /\ logged = 0
    /\ raised = FALSE
    /\ corpus = Reports
    /\ value \in ValueTexts
    /\ vpc = "cell"
    /\ vresult = [raises |-> FALSE, total |-> Float(0, 1), raidable |-> Float(0, 1)]
    /\ ExtractOff
    /\ runs = <<>>
    /\ ui = <<>>

\* lines 58-69: the cell's texts; the unpacking may raise
ExtractValue ==
    /\ vpc = "cell"
    /\ vresult' = ResourceValue(value)
    /\ vpc' = IF ResourceValue(value).raises THEN "raised" ELSE "extracted"
    /\ UNCHANGED value

\* lines 166-179: the Resource row made from the texts
StoreValue ==
    /\ vpc = "extracted"
    /\ vresult' = [raises |-> FALSE,
                   total |-> FloatOrZero(vresult.total),
                   raidable |-> FloatOrZero(vresult.raidable)]
    /\ vpc' = "stored"
    /\ UNCHANGED value

NextValue ==
    \/ (ExtractValue /\ UNCHANGED valueFrame)
    \/ (StoreValue /\ UNCHANGED valueFrame)

SpecValue == InitValue /\ [][NextValue]_vars

----------------------------------------------------------------------------
(* One document, from its cells to report_data *)

\* The identity cell's text by its parts: an optional heading, an optional
\* opening quote, the name, the separator, the coordinates text and what
\* follows it.
IdentityParts ==
    [present : {TRUE},
     heading : BOOLEAN,
     open    : {<<Quote>>, <<>>},
     name    : {<<>>, <<"a">>, <<"a", " ", "b">>, <<"a", "-", "b">>, <<" ", "a">>},
     sep     : {<<" ", "-", " ">>, <<"-">>, <<" ">>},
     coords  : {<<"1", "x", "2", "x", "3">>, <<"1", "2", "x", "3", "4", "x", "5", "6">>, <<"1", "x", "2">>},
     close   : {<<Quote>>, <<>>, <<Quote, "z">>}]

NoIdentity ==
    [present |-> FALSE, heading |-> FALSE, open |-> <<>>, name |-> <<>>,
     sep |-> <<>>, coords |-> <<>>, close |-> <<>>]

HeartIdentity ==
    [present |-> TRUE, heading |-> TRUE, open |-> <<Quote>>, name |-> <<"a">>,
     sep |-> <<" ", "-", " ">>, coords |-> <<"1", "x", "2", "x", "3">>, close |-> <<Quote>>]

\* the text after the heading
IdentityText(p) == p.open \o p.name \o p.sep \o p.coords \o p.close

\* get_text(strip=True) leaves no space at either end of a cell's text
Identities ==
    {p \in IdentityParts : p.heading \/ Head(IdentityText(p)) # " "}
        \cup {NoIdentity}

Cell(class, text) == [class |-> class, ident |-> FALSE, table |-> 0, text |-> text]

TableCell(class, n, text) == [class |-> class, ident |-> FALSE, table |-> n, text |-> text]

IdentityCell(p) ==
    IF p.present
    THEN <<[class |-> "second", ident |-> TRUE, table |-> 0,
            text |-> (IF p.heading THEN PlanetInformation ELSE <<>>)
                         \o IdentityText(p)]>>
    ELSE <<>>

\* the label and value cells between the identity cell and the tables
LabelCells ==
    {<<>>,
     <<Cell("first", <<"O", "w", "n", "e", "r", ":">>), Cell("second", <<"Z", "e", "d">>),
       Cell("first", <<"R", "a", "c", "e", ":">>), Cell("second", <<"H", "u", "m", "a", "n">>),
       Cell("first", <<"A", "l", "l", "i", "a", "n", "c", "e", ":">>), Cell("second", <<"V", "o", "g", "o", "n", "s">>)>>,
     <<Cell("first", <<"O", "W", "N", "E", "R", ":">>), Cell("other", <<"Z", "e", "d">>),
       Cell("other", <<"R", "a", "c", "e", ":">>), Cell("second", <<"H", "u", "m", "a", "n">>)>>,
     <<Cell("first", <<"O", "w", "n", "e", "r", ":">>), Cell("second", <<"R", "a", "c", "e", ":">>),
       Cell("second", <<"H", "u", "m", "a", "n">>)>>,
     <<Cell("first", <<"A", "t", "t", "a", "c", "k", ":">>), Cell("second", <<"1", "2", " ", "(", "3", ")">>),
       Cell("first", <<"D", "e", "f", "e", "n", "s", "e", ":">>), Cell("second", <<"n", "/", "a">>),
       Cell("first", <<"T", "e", "m", "p", "e", "r", "a", "t", "u", "r", "e", ":">>), Cell("second", <<"2", "0">>),
       Cell("first", <<"M", "o", "o", "n", "s", ":">>), Cell("second", <<"2">>)>>,
     <<Cell("first", <<"G", "o", "l", "d", ":">>), Cell("second", <<"1", ".", "5", "(", "0", ",", "5", ")">>),
       Cell("first", <<"C", "r", "y", "s", "t", "a", "l", "s", ":">>), Cell("second", <<"7">>),
       Cell("first", <<"G", "o", "l", "d", ":">>), Cell("second", <<"2">>)>>,
     <<Cell("first", <<"G", "o", "l", "d", ":">>), Cell("second", <<"1", "(", "1", "(", "1">>)>>,
     <<Cell("second", <<"Z", "e", "d">>), Cell("first", <<"O", "w", "n", "e", "r", ":">>)>>}

\* the fingerprinted tables and their cells
TableCells ==
    {[tables |-> 0, cells |-> <<>>],
     [tables |-> 1, cells |-> <<TableCell("first", 1, <<"M", "i", "n", "e", " ", "3">>)>>],
     [tables |-> 2,
      cells |-> <<TableCell("first", 1, <<"M", "i", "n", "e", " ", "3">>),
                  TableCell("second", 1, <<"M", "i", "n", "e">>),
                  TableCell("first", 1, <<"D", "e", "e", "p", " ", " ", "M", "i", "n", "e", " ", "1", "2">>),
                  TableCell("other", 1, <<"D", "o", "c", "k", " ", "4">>),
                  TableCell("first", 1, <<"M", "i", "n", "e", " ", "5">>),
                  TableCell("first", 2, <<"L", "a", "s", "e", "r", " ", "2">>),
                  TableCell("second", 2, <<"W", "a", "r", "p", "1">>)>>],
     [tables |-> 3,
      cells |-> <<TableCell("first", 1, <<"M", "i", "n", "e", " ", "3">>),
                  TableCell("first", 3, <<"L", "a", "s", "e", "r", " ", "2">>)>>]}

Document(p, labels, t) ==
    [identity |-> p,
     cells |-> IdentityCell(p) \o labels \o t.cells,
     tables |-> t.tables]

Docs ==
    {Document(p, <<>>, [tables |-> 0, cells |-> <<>>]) : p \in Identities}
        \cup {Document(p, l, t) : p \in {HeartIdentity, NoIdentity},
                                  l \in LabelCells, t \in TableCells}

InitExtract ==
    /\ db = EmptyDb
    /\ session = "active"
    /\ pc = "off"
    /\ now = 0
    /\ report = NoReport
    /\ alliance = 0
    /\ player = 0
    /\ planet = 0
    /\ idx = 0
    /\ before = EmptyDb
    /\ lastLog = [level |-> "", what |-> "", player_name |-> "", coordinates |-> ""]
    /\ logged = 0
    /\ raised = FALSE
    /\ corpus = Reports
    /\ value = <<>>
    /\ vpc = "off"
    /\ vresult = [raises |-> FALSE, total |-> Float(0, 1), raidable |-> Float(0, 1)]
    /\ doc \in Docs
    /\ epc = "doc"
    /\ eresult = <<>>
    /\ runs = <<>>
    /\ ui = <<>>

\* lines 11-93: the call returns report_data or raises
Extract ==
    /\ epc = "doc"
    /\ eresult' = parse_espionage_report(doc)
    /\ epc' = IF parse_espionage_report(doc).raises # "" THEN "raised" ELSE "done"
    /\ UNCHANGED doc

NextExtract == Extract /\ UNCHANGED extractFrame

SpecExtract == InitExtract /\ [][NextExtract]_vars

----------------------------------------------------------------------------
(* A whole report reconciled with every commit succeeding *)

RECURSIVE ResourceLoop(_, _, _)
ResourceLoop(d, lines, pn) ==
    IF lines = <<>> THEN d
    ELSE ResourceLoop(ResourceStep(d, Head(lines), pn), Tail(lines), pn)

RECURSIVE BuildingLoop(_, _, _)
BuildingLoop(d, lines, pn) ==
    IF lines = <<>> THEN d
    ELSE BuildingLoop(BuildingStep(d, Head(lines), pn), Tail(lines), pn)

RECURSIVE ResearchLoop(_, _, _)
ResearchLoop(d, lines, pl) ==
    IF lines = <<>> THEN d
    ELSE ResearchLoop(ResearchStep(d, Head(lines), pl), Tail(lines), pl)

Reconcile(d, rep, t) ==
    LET a == AllianceStep(d, rep)
        p == PlayerStep(a.db, rep, a.alliance, t)
        q == PlanetStep(p.db, rep, p.player)
    IN  ResearchLoop(
            BuildingLoop(ResourceLoop(q.db, rep.resources, q.planet),
                         rep.buildings, q.planet),
            rep.researches, p.player)

----------------------------------------------------------------------------
(* Two process_reports runs, each with its own session, on one database *)

\* A run's SELECT reads the committed tables; the rows it loads stay in its
\* session until its next commit.  Its commit flushes what the statements
\* after the SELECT did to those rows: an INSERT of each added row, an UPDATE
\* of the changed columns of each loaded row, by primary key.

Runs == {1, 2}

\* the documents behind the URLs of the two runs
RaceReports == {RepA, RepC, RepD}

\* faulty variant of PlanetUnique: coordinates without unique constraint
PlanetUniqueNone(d, row) == TRUE

\* database.py line 11: Alliance.name unique
AllianceUnique(d, row) == \A c \in d.alliances : c.name # row.name

\* database.py line 17: Player.name unique
PlayerUnique(d, row) == \A c \in d.players : c.name # row.name

\* database.py line 30: Planet.coordinates unique
PlanetUnique(d, row) == \A c \in d.planets : c.coordinates # row.coordinates

\* the rows a session added to a table since it loaded `old`
Inserted(old, new) == {r \in new : \A o \in old : o.id # r.id}

\* the committed row c after the UPDATE a session emits for it: the columns
\* the session changed on its loaded copy, the others as committed
Updated(c, old, new) ==
    IF \E o \in old, n \in new : o.id = c.id /\ n.id = c.id
    THEN LET o == CHOOSE x \in old : x.id = c.id
             n == CHOOSE x \in new : x.id = c.id
         IN  [f \in DOMAIN c |-> IF n[f] # o[f] THEN n[f] ELSE c[f]]
    ELSE c

\* the flush of a session that loaded `old` and holds `new`, on the committed
\* tables d
Flush(d, old, new) ==
    [t \in DOMAIN d |->
        {Updated(c, old[t], new[t]) : c \in d[t]}
            \cup {[r EXCEPT !.id = NextId(d[t])] : r \in Inserted(old[t], new[t])}]

\* an INSERT of the flush violates a unique constraint: IntegrityError
FlushFails(d, old, new) ==
    \/ \E r \in Inserted(old.alliances, new.alliances) : ~AllianceUnique(d, r)
    \/ \E r \in Inserted(old.players, new.players) : ~PlayerUnique(d, r)
    \/ \E r \in Inserted(old.planets, new.planets) : ~PlanetUnique(d, r)

\* the statements of a run between the SELECT of its position and the commit,
\* on the tables d it loaded
RunStep(r, d) ==
    IF r.pc = "alliance"
    THEN IF AllianceName(r.report) = "None"
         THEN [db |-> d, id |-> 0]
         ELSE [db |-> AllianceStep(d, r.report).db,
               id |-> AllianceStep(d, r.report).alliance]
    ELSE IF r.pc = "player"
    THEN [db |-> PlayerStep(d, r.report, r.alliance, r.t).db,
          id |-> PlayerStep(d, r.report, r.alliance, r.t).player]
    ELSE IF r.pc = "planet"
    THEN [db |-> PlanetStep(d, r.report, r.player).db,
          id |-> PlanetStep(d, r.report, r.player).planet]
    ELSE IF r.pc = "resources"
    THEN [db |-> ResourceStep(d, r.report.resources[r.idx], r.planet), id |-> 0]
    ELSE IF r.pc = "buildings"
    THEN [db |-> BuildingStep(d, r.report.buildings[r.idx], r.planet), id |-> 0]
    ELSE [db |-> ResearchStep(d, r.report.researches[r.idx], r.player), id |-> 0]

\* the table of the row that the position's get-or-create binds to a local
RunTable(pos) ==
    IF pos = "alliance" THEN "alliances"
    ELSE IF pos = "player" THEN "players" ELSE "planets"

\* where a run goes after the commit of its position
RunAfter(r) ==
    IF r.pc = "alliance" THEN [pc |-> "player", idx |-> 0]
    ELSE IF r.pc = "player" THEN [pc |-> "planet", idx |-> 0]
    ELSE After(r.pc, r.idx, r.report)

NoRun ==
    [pc |-> "fetch", report |-> NoReport, t |-> 0, alliance |-> 0, player |-> 0,
     planet |-> 0, idx |-> 0, loaded |-> FALSE, seen |-> EmptyDb, at |-> ""]

\* lines 98-106 of run w
RunFetch(w) ==
    /\ runs[w].pc = "fetch"
    /\ now' = now + 1
    /\ \E rep \in corpus :
        runs' = [runs EXCEPT ![w].report = rep, ![w].t = now + 1,
                             ![w].pc = "alliance"]
    /\ UNCHANGED db

\* the session.query(...).first() of run w's position
RunQuery(w) ==
    /\ runs[w].pc \in {"alliance", "player", "planet", "resources",
                       "buildings", "researches"}
    /\ ~runs[w].loaded
    /\ runs' = [runs EXCEPT ![w].loaded = TRUE, ![w].seen = db]
    /\ UNCHANGED <<db, now>>

\* the statements after the query and the session.commit() of run w's
\* position; a failed flush ends the document at lines 225-226
RunCommit(w) ==
    LET r == runs[w]
        step == RunStep(r, r.seen)
        id == IF Inserted(r.seen[RunTable(r.pc)], step.db[RunTable(r.pc)]) # {}
              THEN NextId(db[RunTable(r.pc)]) ELSE step.id
    IN  /\ r.loaded
        /\ UNCHANGED now
        /\ IF FlushFails(db, r.seen, step.db)
           THEN /\ runs' = [runs EXCEPT ![w].pc = "failed", ![w].at = r.pc,
                                        ![w].loaded = FALSE]
                /\ UNCHANGED db
           ELSE /\ db' = Flush(db, r.seen, step.db)
                /\ runs' = [runs EXCEPT
                       ![w].pc = RunAfter(r).pc,
                       ![w].idx = RunAfter(r).idx,
                       ![w].loaded = FALSE,
                       ![w].alliance = IF r.pc = "alliance" THEN id ELSE @,
                       ![w].player = IF r.pc = "player" THEN id ELSE @,
                       ![w].planet = IF r.pc = "planet" THEN id ELSE @]

\* lines 221-223 of run w
RunLog(w) ==
    /\ runs[w].pc = "log"
    /\ runs' = [runs EXCEPT ![w].pc = "done"]
    /\ UNCHANGED <<db, now>>

\* the two runs start on a database that holds nothing or one report
InitRace ==
    /\ db \in {EmptyDb, Reconcile(EmptyDb, RepB, 0)}
    /\ session = "active"
    /\ pc = "off"
    /\ now = 0
    /\ report = NoReport
    /\ alliance = 0
    /\ player = 0
    /\ planet = 0
    /\ idx = 0
    /\ before = EmptyDb
    /\ lastLog = [level |-> "", what |-> "", player_name |-> "", coordinates |-> ""]
    /\ logged = 0
    /\ raised = FALSE
    /\ corpus = RaceReports
    /\ value = <<>>
    /\ vpc = "off"
    /\ vresult = [raises |-> FALSE, total |-> Float(0, 1), raidable |-> Float(0, 1)]
    /\ ExtractOff
    /\ runs = [w \in Runs |-> NoRun]
    /\ ui = <<>>

NextRace ==
    \/ \E w \in Runs : (RunFetch(w) /\ UNCHANGED raceFrame)
    \/ \E w \in Runs : (RunQuery(w) /\ UNCHANGED raceFrame)
    \/ \E w \in Runs : (RunCommit(w) /\ UNCHANGED raceFrame)
    \/ \E w \in Runs : (RunLog(w) /\ UNCHANGED raceFrame)

SpecRace == InitRace /\ [][NextRace]_vars

----------------------------------------------------------------------------
(* queries.py: the queries, as functions of the tables *)

\* the rows in the order a query without ORDER BY returns them: by rowid
RECURSIVE ById(_)
ById(rows) ==
    IF rows = {} THEN <<>> ELSE <<First(rows)>> \o ById(rows \ {First(rows)})

\* str() of a column that no INSERT or UPDATE of the program assigns
\* (database.py lines 31-33: nullable, no default): NULL, loaded as None
ColumnText(row, column) ==
    IF column \in DOMAIN row THEN ToString(row[column]) ELSE "None"

\* line 190: f"{planet.x_coord}x{planet.y_coord}x{planet.z_coord}"
CoordText(row) ==
    ColumnText(row, "x_coord") \o "x" \o ColumnText(row, "y_coord")
        \o "x" \o ColumnText(row, "z_coord")

\* lines 192-194 for one planet: a tuple per Resource row of the planet
RECURSIVE PlanetTuples(_, _)
PlanetTuples(row, resources) ==
    IF resources = <<>> THEN <<>>
    ELSE <<[coord |-> CoordText(row), planet_type |-> row.planet_type,
            res_type |-> Head(resources).type,
            raidable |-> Head(resources).raidable]>>
         \o PlanetTuples(row, Tail(resources))

\* lines 189-194: the loop over the planets
RECURSIVE PlanetsTuples(_, _)
PlanetsTuples(d, planets) ==
    IF planets = <<>> THEN <<>>
    ELSE PlanetTuples(Head(planets),
                      ById({r \in d.resources : r.planet_id = Head(planets).id}))
         \o PlanetsTuples(d, Tail(planets))

\* lines 177-195
get_player_planets_and_resources(d, player_name) ==
    PlanetsTuples(d, ById({q \in d.planets :
                              \E p \in d.players :
                                  p.id = q.player_id /\ p.name = player_name}))

\* lines 232-239: planet_dict, a mapping from the shown coordinate to the
\* planet type and the resources shown in its row
RECURSIVE PlanetDict(_, _)
PlanetDict(dict, tuples) ==
    IF tuples = <<>> THEN dict
    ELSE LET t == Head(tuples)
             row == IF t.coord \in DOMAIN dict THEN dict[t.coord]
                    ELSE [planet_type |-> t.planet_type, resources |-> <<>>]
             new == [row EXCEPT !.resources =
                        (t.res_type :> t.raidable)
                            @@ [k \in DOMAIN row.resources \ {t.res_type} |->
                                    row.resources[k]]]
         IN  PlanetDict((t.coord :> new)
                            @@ [c \in DOMAIN dict \ {t.coord} |-> dict[c]],
                        Tail(tuples))

\* lines 212-260: the rows of the table that view_player_details prints for
\* the selected player, by shown coordinate
view_player_details(d, player_name) ==
    PlanetDict(<<>>, get_player_planets_and_resources(d, player_name))

\* lines 558 and 586: {research.name: research.level for research in
\* player.researches}.get(name, 0)
ResearchLevelOf(d, p, name) ==
    LET rows == {r \in d.researches : r.player_id = p.id /\ r.name = name}
    IN  IF rows = {} THEN 0
        ELSE (CHOOSE r \in rows : \A q \in rows : q.id <= r.id).level

\* lines 552-604: the names tech_steal_targets lists for the user player and
\* the selected research
tech_steal_targets(d, user_player_name, selected_research) ==
    LET user_player == First({p \in d.players : p.name = user_player_name})
        user_researches == {r.name : r \in {q \in d.researches :
                                               q.player_id = user_player.id}}
        selected_research_level ==
            ResearchLevelOf(d, user_player, selected_research) + 1
        potential_targets ==
            {p \in d.players :
                \E r \in d.researches :
                    /\ r.player_id = p.id /\ r.name = selected_research
                    /\ r.level >= selected_research_level}
    IN  {target.name : target \in
            {t \in potential_targets :
                /\ ResearchLevelOf(d, t, selected_research)
                       >= selected_research_level
                /\ \A research \in user_researches \ {selected_research} :
                       ResearchLevelOf(d, t, research)
                           <= ResearchLevelOf(d, user_player, research)}}

----------------------------------------------------------------------------
(* main.py and queries.execute_query: the interactive loop *)

\* ui.at is the prompt the program waits at, ui.input what the last input()
\* returned after .strip().lower(), ui.choice the local `choice` of
\* execute_query, ui.from the loop that called confirm_exit, ui.said the last
\* message printed and ui.by the loop that printed it, ui.user the
\* "user_player" of the settings file, ui.shown the result of the last query.

\* what input().strip().lower() returns
Inputs == {"1", "2", "3", "4", "5", "0", "b", "back", "e", "exit", "x", ""}

\* what the answer to confirm_exit's prompt is
Answers == {"y", "n", "", "x"}

\* the documents behind the URLs entered at "Update Reports"
MenuReports == {RepA, RepD, RepF}

Submenus == {"player_info", "search", "gdz", "settings"}

NothingShown == [what |-> "nothing"]

Said(u, text, loop) == [u EXCEPT !.said = text, !.by = loop]

\* input() has returned `in` and the program goes on to the prompt `at`;
\* what the last query printed has scrolled away
Prompt(u, at, in) ==
    [u EXCEPT !.at = at, !.input = in, !.said = "", !.by = "",
              !.shown = NothingShown]

\* queries.py lines 1157-1252: the if/elif chain that follows the block of
\* `if choice == '1'`
QueryChain(choice) ==
    IF choice = "2" THEN "search"
    ELSE IF choice = "3" THEN "gdz"
    ELSE IF choice = "4" THEN "settings"
    ELSE "invalid"

\* a session.query of a query function: with the session's transaction left
\* inactive by a failed flush it raises PendingRollbackError, which nothing
\* between the query and main() catches
QueryRaises == session # "active"

Crashed(u) == [u EXCEPT !.at = "crashed", !.said = "PendingRollbackError"]

\* main.py lines 53-63
Main ==
    /\ ui.at = "main"
    /\ \E c \in Inputs :
        ui' = IF c = "1" THEN Prompt(ui, "update", c)
              ELSE IF c = "2" THEN [Prompt(ui, "query", c) EXCEPT !.choice = ""]
              ELSE IF c \in {"3", "e", "exit"}
                  THEN [Prompt(ui, "confirm", c) EXCEPT !.from = "main"]
              ELSE Said(Prompt(ui, "main", c), "invalid choice", "main")
    /\ UNCHANGED <<db, session, now>>

\* main.py lines 19-31 with parser.process_reports: no URL is entered, or one
\* document is reconciled, or its first commit fails and leaves the session's
\* transaction inactive
update_reports ==
    /\ ui.at = "update"
    /\ ui' = Prompt(ui, "main", "done")
    /\ \/ UNCHANGED <<db, session, now>>
       \/ /\ now < MaxUpdates
          /\ now' = now + 1
          /\ \/ /\ session = "active"
                /\ \E rep \in MenuReports : db' = Reconcile(db, rep, now + 1)
                /\ UNCHANGED session
             \/ /\ session' = "inactive"
                /\ UNCHANGED db

\* queries.py lines 1010-1028, 1157, 1218, 1247-1252: one choice at the query
\* menu
execute_query ==
    /\ ui.at = "query"
    /\ \E c \in Inputs :
        LET u == [Prompt(ui, "query", c) EXCEPT !.choice = c]
        IN  ui' = IF c \in {"e", "exit", "0"}
                      THEN [u EXCEPT !.at = "confirm", !.from = "query"]
                  ELSE IF c \in {"b", "back"}
                      THEN Said([u EXCEPT !.at = "main"], "back", "query")
                  ELSE IF c = "1" THEN [u EXCEPT !.at = "player_info"]
                  ELSE IF QueryChain(c) = "invalid"
                      THEN Said(u, "invalid choice", "query")
                  ELSE [u EXCEPT !.at = QueryChain(c)]
    /\ UNCHANGED <<db, session, now>>

\* the exit and invalid choices of a submenu's loop (lines 1043-1045 and
\* 1154-1155, 1169-1171 and 1214-1215, 1229-1231 and 1244-1245, 668-671)
SubmenuOther ==
    /\ ui.at \in Submenus
    /\ \E c \in Inputs \ {"b", "back"} :
        /\ c \in {"e", "exit"} \/ c \notin {"1", "2", "3", "4", "5"}
           \/ (c \in {"3", "4", "5"} /\ ui.at \in {"search", "gdz"})
           \/ (c \in {"2", "3", "4", "5"} /\ ui.at = "settings")
        /\ ui' = IF c \in {"e", "exit"}
                 THEN [Prompt(ui, "confirm", c) EXCEPT !.from = ui.at]
                 ELSE Said(Prompt(ui, ui.at, c), "invalid choice", ui.at)
    /\ UNCHANGED <<db, session, now>>

\* 'b' or 'back' in a submenu: the break leaves the submenu's loop, and the
\* statements after the block of the choice run: for choice '1' the chain of
\* line 1157, for the others the end of the loop body; the settings menu
\* returns into its branch of the chain
SubmenuBack ==
    /\ ui.at \in Submenus
    /\ \E c \in {"b", "back"} :
        ui' = IF ui.at # "player_info"
              THEN Said(Prompt(ui, "query", c), "back", ui.at)
              ELSE IF QueryChain(ui.choice) = "invalid"
              THEN Said(Prompt(ui, "query", c), "invalid choice", "query")
              ELSE Said(Prompt(ui, QueryChain(ui.choice), c), "back", ui.at)
    /\ UNCHANGED <<db, session, now>>

\* get_user_selection (lines 48-84) over the names `options`, as the query
\* functions use it: the name selected, or None after back, cancel or a
\* declined exit
Selections(options) == options \cup {"None", "exit"}

\* queries.py lines 1047-1049 with view_player_details (lines 212-292)
ViewPlayerDetails ==
    /\ ui.at = "player_info"
    /\ UNCHANGED <<db, session, now>>
    /\ LET u == Prompt(ui, "player_info", "1")
       IN  IF QueryRaises THEN ui' = Crashed(u)
           ELSE IF db.players = {} THEN ui' = Said(u, "no players", ui.at)
           ELSE \E s \in Selections({p.name : p \in db.players}) :
                   ui' = IF s = "exit"
                         THEN [u EXCEPT !.at = "confirm", !.from = "player_info"]
                         ELSE IF s = "None" THEN u
                         ELSE [u EXCEPT !.shown =
                                  [what |-> "details", player |-> s,
                                   rows |-> view_player_details(db, s)]]

\* queries.py lines 1239-1241 with tech_steal_targets (lines 544-607)
TechStealTargets ==
    /\ ui.at = "gdz"
    /\ UNCHANGED <<db, session, now>>
    /\ LET u == Prompt(ui, "gdz", "2")
       IN  IF ui.user = "" THEN ui' = Said(u, "user not set", ui.at)
           ELSE IF QueryRaises THEN ui' = Crashed(u)
           ELSE IF \A p \in db.players : p.name # ui.user
               THEN ui' = Said(u, "user not found", ui.at)
           ELSE IF db.researches = {}
               THEN ui' = Said(u, "no researches", ui.at)
           ELSE \E s \in Selections({r.name : r \in db.researches}) :
                   ui' = IF s = "exit"
                         THEN [u EXCEPT !.at = "confirm", !.from = "gdz"]
                         ELSE IF s = "None" THEN u
                         ELSE [u EXCEPT !.shown =
                                  [what |-> "targets", research |-> s,
                                   names |-> tech_steal_targets(db, ui.user, s)]]

\* queries.py lines 662-663 with set_user_player (lines 295-311)
SetUserPlayer ==
    /\ ui.at = "settings"
    /\ UNCHANGED <<db, session, now>>
    /\ LET u == Prompt(ui, "settings", "1")
       IN  IF QueryRaises THEN ui' = Crashed(u)
           ELSE IF db.players = {} THEN ui' = Said(u, "no players", ui.at)
           ELSE \E s \in Selections({p.name : p \in db.players}) :
                   ui' = IF s = "exit"
                         THEN [u EXCEPT !.at = "confirm", !.from = "settings"]
                         ELSE IF s = "None" THEN u
                         ELSE [u EXCEPT !.user = s]

\* the other query functions of the submenus (player info 2-5, search 1-2,
\* compare_tech): each starts with a session.query and prints its result
OtherQuery ==
    /\ ui.at \in {"player_info", "search", "gdz"}
    /\ UNCHANGED <<db, session, now>>
    /\ \E c \in {"1", "2", "3", "4", "5"} :
        /\ \/ (ui.at = "player_info" /\ c # "1")
           \/ (ui.at = "search" /\ c \in {"1", "2"})
           \/ (ui.at = "gdz" /\ c = "1")
        /\ ui' = IF QueryRaises THEN Crashed(Prompt(ui, ui.at, c))
                 ELSE [Prompt(ui, ui.at, c) EXCEPT !.shown = NothingShown]

\* queries.py lines 197-210
confirm_exit ==
    /\ ui.at = "confirm"
    /\ \E a \in Answers :
        ui' = IF a = "y"
              THEN Said(Prompt(ui, "exited", a), "goodbye", "confirm_exit")
              ELSE IF a \in {"n", ""}
              THEN Said(Prompt(ui, ui.from, a), "exit canceled", "confirm_exit")
              ELSE Said(Prompt(ui, "confirm", a), "invalid input", "confirm_exit")
    /\ UNCHANGED <<db, session, now>>

\* main.py lines 44-52: the program starts on the database file as an
\* earlier program run left it
InitMenu ==
    /\ db \in {EmptyDb, Reconcile(EmptyDb, RepA, 0)}
    /\ session = "active"
    /\ pc = "off"
    /\ now = 0
    /\ report = NoReport
    /\ alliance = 0
    /\ player = 0
    /\ planet = 0
    /\ idx = 0
    /\ before = EmptyDb
    /\ lastLog = [level |-> "", what |-> "", player_name |-> "", coordinates |-> ""]
    /\ logged = 0
    /\ raised = FALSE
    /\ corpus = MenuReports
    /\ value = <<>>
    /\ vpc = "off"
    /\ vresult = [raises |-> FALSE, total |-> Float(0, 1), raidable |-> Float(0, 1)]
    /\ ExtractOff
    /\ runs = <<>>
    /\ ui = [at |-> "main", input |-> "", choice |-> "", from |-> "main",
             said |-> "", by |-> "", user |-> "", shown |-> NothingShown]

NextMenu ==
    \/ (Main /\ UNCHANGED menuFrame)
    \/ (update_reports /\ UNCHANGED menuFrame)
    \/ (execute_query /\ UNCHANGED menuFrame)
    \/ (SubmenuOther /\ UNCHANGED menuFrame)
    \/ (SubmenuBack /\ UNCHANGED menuFrame)
    \/ (ViewPlayerDetails /\ UNCHANGED menuFrame)
    \/ (TechStealTargets /\ UNCHANGED menuFrame)
    \/ (SetUserPlayer /\ UNCHANGED menuFrame)
    \/ (OtherQuery /\ UNCHANGED menuFrame)
    \/ (confirm_exit /\ UNCHANGED menuFrame)

SpecMenu == InitMenu /\ [][NextMenu]_vars

----------------------------------------------------------------------------
(* Properties *)

Row(table, id) == CHOOSE r \in table : r.id = id

MidReport == {"player", "planet", "resources", "buildings", "researches", "log"}

AfterPlanet == {"resources", "buildings", "researches", "log"}

\* C1: the stored level of a (player, research name) never decreases: every
\* step keeps each Research row with a level at least as high, and an
\* iteration of the researches loop that commits leaves exactly one row for
\* its key, holding the report's level if that is strictly greater than the
\* stored one (or no row was stored) and the stored level otherwise.
C1_ResearchMonotone ==
    [][/\ \A r \in db.researches : \E q \in db'.researches :
            /\ q.id = r.id /\ q.name = r.name /\ q.player_id = r.player_id
            /\ q.level >= r.level
       /\ (pc = "researches" /\ pc' # "fetch") =>
            LET line == report.researches[idx]
                old == ResearchRows(db, line.name, player)
                new == ResearchRows(db', line.name, player)
            IN  /\ Cardinality(new) = 1
                /\ \A q \in new :
                    q.level = IF old = {} \/ line.level > First(old).level
                              THEN line.level ELSE First(old).level]_vars

\* C1 witness: a report with a lower research level than the stored one has
\* been reconciled and the stored row is as it was.
C1_Witness ==
    /\ pc = "log"
    /\ \E i \in 1..Len(report.researches) : \E r \in before.researches :
        /\ r.player_id = player /\ r.name = report.researches[i].name
        /\ r.level > report.researches[i].level
        /\ r \in db.researches

\* C2: once the planet step of a report has committed, the Planet row of the
\* report's coordinates is owned by the report's player, and every planet of
\* other coordinates is as it was before the report.
C2_OwnershipTransfer ==
    pc \in AfterPlanet =>
        /\ \A p \in db.planets :
            p.coordinates = Coordinates(report) => p.player_id = player
        /\ \A p \in before.planets :
            p.coordinates # Coordinates(report) => p \in db.planets

\* C3: a report reconciled to its logging call has left the tables that
\* Reconcile computes, and from the tables between two documents, reconciling
\* any report a second time changes no row of any table except the player's
\* last_update, which does not move backwards.
WithoutLastUpdate(d) ==
    [d EXCEPT !.players = {[r EXCEPT !.last_update = 0] : r \in @}]

C3_Idempotent ==
    /\ pc = "log" => db = Reconcile(before, report, now)
    /\ pc = "fetch" =>
        \A rep \in Reports :
            LET once == Reconcile(db, rep, now + 1)
                twice == Reconcile(once, rep, now + 2)
            IN  /\ WithoutLastUpdate(twice) = WithoutLastUpdate(once)
                /\ \A r \in once.players : \E q \in twice.players :
                    q.id = r.id /\ q.last_update >= r.last_update

\* C3 witness: a report has been reconciled on tables that already held every
\* row it names, and no row changed but the player's last_update.
C3_Witness ==
    /\ pc = "log"
    /\ report.resources # <<>> /\ report.researches # <<>>
    /\ WithoutLastUpdate(db) = WithoutLastUpdate(before)
    /\ db # before

\* C4: the steps of one report are visible as one unit: between the fetch
\* and the logging call the committed tables are those before the report,
\* and a document that ended with an error left them as they were.
C4_Atomic ==
    /\ pc \in MidReport \ {"log"} => db = before
    /\ (pc = "fetch" /\ lastLog.level = "error") => db = before

\* C5: in every committed state, also after a step failed mid-report, row
\* ids are unique, every Planet is owned by an existing Player, every
\* Resource and Building row is of an existing Planet, every Research row of
\* an existing Player, and a Player's alliance is NULL or an existing Alliance.
UniqueIds(table) == \A r \in table, q \in table : r.id = q.id => r = q

Exists(table, id) == \E r \in table : r.id = id

C5_ReferentialIntegrity ==
    /\ UniqueIds(db.alliances) /\ UniqueIds(db.players) /\ UniqueIds(db.planets)
    /\ UniqueIds(db.resources) /\ UniqueIds(db.buildings)
    /\ UniqueIds(db.researches)
    /\ \A p \in db.planets : p.player_id # 0 /\ Exists(db.players, p.player_id)
    /\ \A r \in db.resources : Exists(db.planets, r.planet_id)
    /\ \A b \in db.buildings : Exists(db.planets, b.planet_id)
    /\ \A r \in db.researches : Exists(db.players, r.player_id)
    /\ \A p \in db.players :
        p.alliance_id = 0 \/ Exists(db.alliances, p.alliance_id)

\* C5 witness: a flush failed after the planet step of a report had committed
\* a new planet.
C5_Witness ==
    /\ pc = "fetch" /\ lastLog.level = "error" /\ lastLog.what \in FlushErrors
    /\ db.planets # before.planets
    /\ Cardinality(db.planets) > Cardinality(before.planets)

\* C6: no document that was fetched and extracted fails because of an earlier
\* document's failure: none ends with the error of a session that an earlier
\* failed flush left unusable.
C6_BatchIsolation ==
    ~(lastLog.level = "error" /\ lastLog.what = "PendingRollbackError")

\* C7: a commit that cannot be performed is not swallowed: no log line
\* records an OperationalError as one document's error.
C7_StoreFailurePropagates ==
    ~(lastLog.level = "error" /\ lastLog.what = "OperationalError")

\* C8: no exception leaves process_reports, every document has ended with one
\* logging call when the next is fetched, and a success line carries the name
\* of the stored player and the coordinates of the stored planet.
C8_NeverRaises ==
    /\ ~raised /\ pc # "raised"
    /\ pc = "fetch" => logged = now
    /\ pc = "fetch" => lastLog.level \in {"", "info", "warning", "error"}
    /\ (pc = "fetch" /\ lastLog.level \in {"warning", "error"}) => lastLog.what # ""
    /\ (pc = "fetch" /\ lastLog.level = "info") =>
        /\ Exists(db.players, player)
        /\ Row(db.players, player).name = lastLog.player_name
        /\ Exists(db.planets, planet)
        /\ Row(db.planets, planet).coordinates = lastLog.coordinates

\* C8 witness: a document whose flush failed has ended with an error line,
\* after a document that succeeded.
C8_Witness ==
    /\ pc = "fetch" /\ lastLog.level = "error" /\ lastLog.what \in FlushErrors
    /\ logged >= 2 /\ db.planets # {}

\* C9: when a report reaches its logging call, each of its resource lines has
\* exactly one row for (planet, type), holding the report's total and
\* raidable, and each of its building lines exactly one row for (planet,
\* name), holding the report's level, whatever was stored before.
C9_LastWriteWins ==
    pc = "log" =>
        /\ \A i \in 1..Len(report.resources) :
            LET line == report.resources[i]
                rows == ResourceRows(db, line.type, planet)
            IN  /\ Cardinality(rows) = 1
                /\ \A r \in rows : /\ r.total = FloatOrZero(line.total)
                                   /\ r.raidable = FloatOrZero(line.raidable)
        /\ \A i \in 1..Len(report.buildings) :
            LET line == report.buildings[i]
                rows == BuildingRows(db, line.name, planet)
            IN  /\ Cardinality(rows) = 1
                /\ \A b \in rows : b.level = line.level

\* C9 witness: a report carrying a lower building level and a lower resource
\* total than the stored ones of its planet has been reconciled.
C9_Witness ==
    /\ pc = "log"
    /\ \E i \in 1..Len(report.buildings) : \E b \in before.buildings :
        /\ b.planet_id = planet /\ b.name = report.buildings[i].name
        /\ b.level > report.buildings[i].level
    /\ \E i \in 1..Len(report.resources) : \E r \in before.resources :
        /\ r.planet_id = planet /\ r.type = report.resources[i].type
        /\ FloatLess(FloatOrZero(report.resources[i].total), r.total)

\* C10: the value text "1.234,5(234,5)" is stored as total 1234.5 and
\* raidable 234.5, and "n/a" as total 0.0 and raidable 0.0, and neither
\* raises.
C10_NumericTolerance ==
    /\ (value = TextThousands /\ vpc # "cell") =>
        /\ vpc # "raised"
        /\ vpc = "stored" =>
            /\ vresult.total = Float(12345, 10)
            /\ vresult.raidable = Float(2345, 10)
    /\ (value = TextNA /\ vpc # "cell") =>
        /\ vpc # "raised"
        /\ vpc = "stored" =>
            /\ vresult.total = Float(0, 1)
            /\ vresult.raidable = Float(0, 1)

\* C11: no resource value text makes the extractor raise (which would skip
\* the document), and a part of it that float() rejects is stored as 0.0.
C11_BadValueNeverSkips ==
    /\ vpc # "raised"
    /\ vpc = "stored" =>
        /\ (~ToFloat(ResourceValue(value).total).ok => vresult.total = Float(0, 1))
        /\ (~ToFloat(ResourceValue(value).raidable).ok =>
                vresult.raidable = Float(0, 1))

AfterPlayer == {"planet"} \cup AfterPlanet

\* C12: the document with owner "Zaphod", coordinates "12x34x56" and no
\* alliance label, once reconciled, has left a Player "Zaphod" with no
\* alliance, a Planet "12x34x56" owned by that player, and no new Alliance
\* row.
C12_PartialDocument ==
    (pc = "log" /\ report = RepB) =>
        /\ \E p \in db.players :
            /\ p.name = "Zaphod" /\ p.alliance_id = 0
            /\ \E q \in db.planets :
                q.coordinates = "12x34x56" /\ q.player_id = p.id
        /\ db.alliances = before.alliances

\* C15: the tables hold at most one Research row per (player, name), one
\* Resource row per (planet, type), one Building row per (planet, name), one
\* Player per name and one Alliance per name.
C15_KeyUniqueness ==
    /\ \A r \in db.researches, q \in db.researches :
        (r.player_id = q.player_id /\ r.name = q.name) => r = q
    /\ \A r \in db.resources, q \in db.resources :
        (r.planet_id = q.planet_id /\ r.type = q.type) => r = q
    /\ \A r \in db.buildings, q \in db.buildings :
        (r.planet_id = q.planet_id /\ r.name = q.name) => r = q
    /\ \A r \in db.players, q \in db.players : r.name = q.name => r = q
    /\ \A r \in db.alliances, q \in db.alliances : r.name = q.name => r = q

\* C15 witness: a report has been reconciled whose player, alliance, planet
\* and every line were stored already.
C15_Witness ==
    /\ pc = "log"
    /\ report.resources # <<>> /\ report.buildings # <<>>
    /\ report.researches # <<>> /\ alliance # 0
    /\ Cardinality(db.players) = Cardinality(before.players)
    /\ Cardinality(db.alliances) = Cardinality(before.alliances)
    /\ Cardinality(db.researches) = Cardinality(before.researches)
    /\ Cardinality(db.resources) = Cardinality(before.resources)
    /\ Cardinality(db.buildings) = Cardinality(before.buildings)
    /\ Cardinality(db.players) >= 2

\* C16: once the player step of a report has committed: if the report has an
\* alliance label with a non-empty value, an Alliance row of that name exists
\* and the player references it; otherwise no Alliance row was created and
\* the player's alliance reference is NULL.
C16_AllianceStep ==
    pc \in AfterPlayer =>
        IF "alliance" \in DOMAIN report.player_details
           /\ report.player_details["alliance"] # ""
        THEN \E a \in db.alliances :
                /\ a.name = report.player_details["alliance"]
                /\ Row(db.players, player).alliance_id = a.id
        ELSE /\ db.alliances = before.alliances
             /\ Row(db.players, player).alliance_id = 0

\* C17: once the player step of a report has committed, the Player row of
\* the report's owner name holds the report's race, references the report's
\* alliance (NULL when the report has none) and has this report's processing
\* time as last_update, which is not earlier than the one stored before.
C17_PlayerLastWriteWins ==
    pc \in AfterPlayer =>
        LET p == Row(db.players, player)
        IN  /\ Exists(db.players, player)
            /\ p.name = Get(report.player_details, "owner", "Unknown")
            /\ p.race = Get(report.player_details, "race", "Unknown")
            /\ IF Get(report.player_details, "alliance", "None") = "None"
               THEN p.alliance_id = 0
               ELSE /\ Exists(db.alliances, p.alliance_id)
                    /\ Row(db.alliances, p.alliance_id).name =
                        report.player_details["alliance"]
            /\ p.last_update = now
            /\ \A o \in before.players :
                o.id = p.id => o.last_update <= p.last_update

\* C17 witness: the report found its player stored with another race and
\* another alliance reference.
C17_Witness ==
    /\ pc \in AfterPlayer
    /\ \E o \in before.players :
        /\ o.id = player
        /\ o.race # Row(db.players, player).race
        /\ o.alliance_id # Row(db.players, player).alliance_id
        /\ o.last_update < Row(db.players, player).last_update

\* C18: there is at most one Player named "Unknown"; every reconciled report
\* without an owner label is attributed to it, and each research line of such
\* a report is merged into the one Research row of that player and name.
C18_UnknownSentinel ==
    /\ Cardinality({p \in db.players : p.name = "Unknown"}) <= 1
    /\ (pc = "log" /\ "owner" \notin DOMAIN report.player_details) =>
        /\ Exists(db.players, player)
        /\ Row(db.players, player).name = "Unknown"
        /\ \A i \in 1..Len(report.researches) :
            LET line == report.researches[i]
                rows == {r \in db.researches :
                            r.player_id = player /\ r.name = line.name}
                old == {r \in before.researches :
                            r.player_id = player /\ r.name = line.name}
            IN  /\ Cardinality(rows) = 1
                /\ \A r \in rows : r.level >= line.level
                /\ \A r \in rows, o \in old : r.id = o.id /\ r.level >= o.level

\* C18 witness: a second report without owner label, about another planet,
\* has been merged into research rows the first had created.
C18_Witness ==
    /\ pc = "log" /\ "owner" \notin DOMAIN report.player_details
    /\ \E i \in 1..Len(report.researches) : \E o \in before.researches :
        o.player_id = player /\ o.name = report.researches[i].name
    /\ \E q \in before.planets :
        q.player_id = player /\ q.coordinates # Coordinates(report)


\* the value report_data holds under a key
Item(d, key) == d[CHOOSE i \in 1..Len(d) : d[i].key = key].val

\* the identity text is "<name> - <X>x<Y>x<Z>" followed by anything: quoted,
\* a hyphen between name and coordinates, three numbers in the coordinates
IdentityMatches(p) ==
    /\ p.open = <<Quote>>
    /\ \E i \in 1..Len(p.sep) : p.sep[i] = "-"
    /\ Count(p.coords, "x") = 2
    /\ p.close # <<>>

\* C19: a returned report_data holds, for a matching identity cell, the
\* trimmed name ("Unnamed" for an empty one) and the coordinates text; for a
\* non-matching cell, "Unnamed" and the text without its surrounding quotes;
\* without identity cell, "Unknown" twice.
C19_PlanetIdentity ==
    epc = "done" =>
        LET p == doc.identity
            name == Item(eresult.planet_info, KeyName)
            coordinates == Item(eresult.planet_info, KeyCoordinates)
        IN  IF ~p.present
            THEN name = Unknown /\ coordinates = Unknown
            ELSE IF IdentityMatches(p)
            THEN /\ name = (IF Strip(p.name) = <<>> THEN Unnamed ELSE Strip(p.name))
                 /\ coordinates = p.coords
            ELSE /\ name = Unnamed
                 /\ coordinates = p.name \o p.sep \o p.coords
                        \o (IF p.close = <<Quote>> THEN <<>> ELSE p.close)

\* C19 witness: the extraction of a matching identity cell whose name has a
\* space to trim has returned.
C19_Witness ==
    /\ epc = "done"
    /\ IdentityMatches(doc.identity)
    /\ doc.identity.name # <<>>
    /\ Head(doc.identity.name) = " "

\* C20: parse_espionage_report raises on no document.
C20_NeverRaises == epc # "raised"


\* C13: whatever the interleaving of the two runs' queries and commits, the
\* committed tables hold at most one Planet row per coordinates.
C13_ConcurrentPlanetKey ==
    \A p \in db.planets : \A q \in db.planets :
        p.coordinates = q.coordinates => p.id = q.id

\* C13 witness: both runs found no planet at the same coordinates, one has
\* committed its Planet row and the commit of the other has failed.
C13_Witness ==
    \E w \in Runs : \E v \in Runs \ {w} :
        /\ runs[w].pc = "failed" /\ runs[w].at = "planet"
        /\ PlanetRows(runs[w].seen, runs[w].report) = {}
        /\ Coordinates(runs[v].report) = Coordinates(runs[w].report)
        /\ \E p \in db.planets :
            /\ p.id = runs[v].planet
            /\ p.coordinates = Coordinates(runs[w].report)

\* C14: whatever the interleaving of the two runs' queries and commits, no
\* commit lowers the committed level of a Research row.
C14_ConcurrentResearchMonotone ==
    [][\A r \in db.researches : \A q \in db'.researches :
          (q.id = r.id /\ q.player_id = r.player_id /\ q.name = r.name)
              => q.level >= r.level]_vars


\* C21: no step of process_reports removes a row: every Alliance, Player,
\* Planet, Resource, Building and Research row is still stored after the
\* step, under the same id and the same key.
C21_NoDeletion ==
    [][/\ \A r \in db.alliances : \E q \in db'.alliances :
            q.id = r.id /\ q.name = r.name
       /\ \A r \in db.players : \E q \in db'.players :
            q.id = r.id /\ q.name = r.name
       /\ \A r \in db.planets : \E q \in db'.planets :
            q.id = r.id /\ q.coordinates = r.coordinates
       /\ \A r \in db.resources : \E q \in db'.resources :
            q.id = r.id /\ q.planet_id = r.planet_id /\ q.type = r.type
       /\ \A r \in db.buildings : \E q \in db'.buildings :
            q.id = r.id /\ q.planet_id = r.planet_id /\ q.name = r.name
       /\ \A r \in db.researches : \E q \in db'.researches :
            q.id = r.id /\ q.player_id = r.player_id /\ q.name = r.name]_vars

\* C21 witness: a report has been reconciled into tables that held rows of
\* every kind, among them rows of another player and another planet.
C21_Witness ==
    /\ pc = "log"
    /\ before.alliances # {} /\ before.resources # {}
    /\ before.buildings # {} /\ before.researches # {}
    /\ \E p \in before.players : p.id # player
    /\ \E q \in before.planets : q.id # planet


\* C22: a stored Resource row has total >= 0 and raidable >= 0, whatever the
\* text of its value cell.
C22_NonNegativeResource ==
    vpc = "stored" =>
        /\ ~FloatLess(vresult.total, Float(0, 1))
        /\ ~FloatLess(vresult.raidable, Float(0, 1))


\* the number of digits a text ends with
RECURSIVE TrailingDigits(_)
TrailingDigits(s) ==
    IF s # <<>> /\ s[Len(s)] \in Digits
    THEN 1 + TrailingDigits(SubSeq(s, 1, Len(s) - 1))
    ELSE 0

\* the text is a name, a space and a trailing integer
NameAndLevel(s) ==
    /\ TrailingDigits(s) > 0
    /\ Len(s) - TrailingDigits(s) >= 2
    /\ s[Len(s) - TrailingDigits(s)] = " "

\* the data cells of fingerprinted table n that are a name and a level
LevelCells(d, n) ==
    {i \in 1..Len(d.cells) :
        /\ d.cells[i].table = n /\ d.cells[i].class \in {"first", "second"}
        /\ NameAndLevel(d.cells[i].text)}

CellName(s) == Strip(SubSeq(s, 1, Len(s) - TrailingDigits(s) - 1))

CellLevel(s) == DigitsValue(SubSeq(s, Len(s) - TrailingDigits(s) + 1, Len(s)))

\* the mapping holds one entry per name of the table's cells that are a name
\* and a level, with the level of the last such cell, and nothing else
HoldsCells(map, d, n) ==
    /\ \A j \in 1..Len(map) : \A k \in 1..Len(map) :
        map[j].key = map[k].key => j = k
    /\ \A j \in 1..Len(map) : \E i \in LevelCells(d, n) :
        /\ CellName(d.cells[i].text) = map[j].key
        /\ CellLevel(d.cells[i].text) = map[j].val
        /\ \A h \in LevelCells(d, n) :
            CellName(d.cells[h].text) = map[j].key => h <= i
    /\ \A i \in LevelCells(d, n) : \E j \in 1..Len(map) :
        map[j].key = CellName(d.cells[i].text)

\* C23: for a document with two fingerprinted tables, buildings holds the
\* name -> level entries of the first table's cells and researches those of
\* the second; a cell that does not end in a space and digits contributes
\* nothing and raises nothing (what is raised comes from a label cell outside
\* the tables).
C23_TableCellRule ==
    (epc # "doc" /\ doc.tables >= 2) =>
        /\ epc = "raised" =>
            \E i \in 1..Len(doc.cells) :
                /\ doc.cells[i].table = 0 /\ doc.cells[i].text # <<>>
                /\ doc.cells[i].text[Len(doc.cells[i].text)] = ":"
        /\ epc = "done" =>
            /\ HoldsCells(eresult.buildings, doc, 1)
            /\ HoldsCells(eresult.researches, doc, 2)

\* C23 witness: the extraction of a document has returned whose first table
\* has cells with and without a level, one name twice, and whose second table
\* has both kinds of cell as well.
C23_Witness ==
    /\ epc = "done" /\ doc.tables >= 2
    /\ \E i \in LevelCells(doc, 1) : \E j \in LevelCells(doc, 1) :
        i # j /\ CellName(doc.cells[i].text) = CellName(doc.cells[j].text)
    /\ LevelCells(doc, 2) # {}
    /\ \A n \in {1, 2} : \E i \in 1..Len(doc.cells) :
        /\ doc.cells[i].table = n /\ doc.cells[i].class \in {"first", "second"}
        /\ ~NameAndLevel(doc.cells[i].text)


\* report["buildings"].items() / report["researches"].items() of a returned
\* report_data
Lines(map) == [i \in 1..Len(map) |-> [name |-> map[i].key, level |-> map[i].val]]

\* C25: for a document with fewer than two fingerprinted tables the returned
\* buildings and researches are empty, and the two loops of the
\* reconciliation over them change no Building and no Research row.
C25_TwoTablesOrNothing ==
    (epc = "done" /\ doc.tables < 2) =>
        /\ eresult.buildings = <<>>
        /\ eresult.researches = <<>>
        /\ \A d \in {EmptyDb, Reconcile(EmptyDb, RepA, 0),
                     Reconcile(Reconcile(EmptyDb, RepA, 0), RepD, 1)} :
            LET after == ResearchLoop(
                             BuildingLoop(d, Lines(eresult.buildings), 1),
                             Lines(eresult.researches), 1)
            IN  /\ after.buildings = d.buildings
                /\ after.researches = d.researches

\* C25 witness: the extraction of a document has returned whose only
\* fingerprinted table has a cell with name and level.
C25_Witness ==
    /\ epc = "done" /\ doc.tables = 1
    /\ LevelCells(doc, 1) # {}


\* the value a report carries for a planet field, or the default of the field
Carried(rep, key, default) ==
    IF key \in DOMAIN rep.planet_info THEN rep.planet_info[key] ELSE default

\* C26: once the planet step has updated a planet that was stored already,
\* the row has its id and coordinates as before, and each other field holds
\* what the report carries for it or, if it carries nothing, the default:
\* "Unknown" for temperature, planet_type and invasion_protection, 0 for
\* attack and defense.
C26_PlanetUpdateDefaults ==
    pc \in AfterPlanet =>
        \A old \in before.planets :
            old.coordinates = Coordinates(report) =>
                /\ planet = old.id
                /\ \E q \in db.planets :
                    /\ q.id = old.id /\ q.coordinates = old.coordinates
                    /\ \A o \in db.planets : o.id = q.id => o = q
                    /\ q.name = Carried(report, "name", "Unknown")
                    /\ q.temperature = Carried(report, "temperature", "Unknown")
                    /\ q.planet_type = Carried(report, "planet type", "Unknown")
                    /\ q.invasion_protection =
                           Carried(report, "invasion protection", "Unknown")
                    /\ q.attack = Carried(report, "attack", 0)
                    /\ q.defense = Carried(report, "defense", 0)

\* C26 witness: the planet step has updated a planet whose stored temperature
\* and defense were known, from a report that carries neither.
C26_Witness ==
    /\ pc \in AfterPlanet
    /\ "temperature" \notin DOMAIN report.planet_info
    /\ "defense" \notin DOMAIN report.planet_info
    /\ \E old \in before.planets :
        /\ old.coordinates = Coordinates(report)
        /\ old.temperature # "Unknown" /\ old.defense # 0
        /\ old.name # Carried(report, "name", "Unknown")


\* the rows a report is about, by table
AboutAlliance(r, rep) == r.name = AllianceName(rep)

AboutPlayer(r, rep) == r.name = PlayerName(rep)

AboutPlanet(r, rep) == r.coordinates = Coordinates(rep)

AboutResource(r, rep, d) ==
    /\ \E q \in d.planets : q.id = r.planet_id /\ AboutPlanet(q, rep)
    /\ \E i \in 1..Len(rep.resources) : rep.resources[i].type = r.type

AboutBuilding(r, rep, d) ==
    /\ \E q \in d.planets : q.id = r.planet_id /\ AboutPlanet(q, rep)
    /\ \E i \in 1..Len(rep.buildings) : rep.buildings[i].name = r.name

AboutResearch(r, rep, d) ==
    /\ \E p \in d.players : p.id = r.player_id /\ AboutPlayer(p, rep)
    /\ \E i \in 1..Len(rep.researches) : rep.researches[i].name = r.name

\* the rows of a table that differ between two states of it
Changed(old, new) == (old \ new) \cup (new \ old)

\* C27: while and after a report is reconciled, the tables differ from those
\* at its fetch only in the Alliance row of its alliance name, the Player row
\* of its owner name, the Planet row of its coordinates, the Resource and
\* Building rows of that planet for the types and names of its lines, and the
\* Research rows of that player for the names of its lines.
C27_Frame ==
    /\ \A r \in Changed(before.alliances, db.alliances) : AboutAlliance(r, report)
    /\ \A r \in Changed(before.players, db.players) : AboutPlayer(r, report)
    /\ \A r \in Changed(before.planets, db.planets) : AboutPlanet(r, report)
    /\ \A r \in Changed(before.resources, db.resources) :
        AboutResource(r, report, db)
    /\ \A r \in Changed(before.buildings, db.buildings) :
        AboutBuilding(r, report, db)
    /\ \A r \in Changed(before.researches, db.researches) :
        AboutResearch(r, report, db)

\* C27 witness: a report has been reconciled and has changed a row, while the
\* tables held a building of its planet that it does not mention, a building
\* of the same name on another planet and a research of another player.
C27_Witness ==
    /\ pc = "log"
    /\ \E i \in 1..Len(report.buildings) : \E b \in before.buildings :
        b.name = report.buildings[i].name /\ b.planet_id # planet
    /\ \E s \in before.researches : s.player_id # player
    /\ \E s \in before.resources : s.planet_id = planet /\ ~AboutResource(s, report, db)
    /\ Changed(before.buildings, db.buildings) # {}


\* C24: the names tech_steal_targets has listed are exactly the players whose
\* level in the selected research is at least the user's plus one and whose
\* level in every other research is at most the user's, a research that a
\* side has no row for counting as level 0.
C24_TechStealTargets ==
    ui.shown.what = "targets" =>
        LET user == First({p \in db.players : p.name = ui.user})
            selected == ui.shown.research
            others == {r.name : r \in db.researches} \ {selected}
        IN  \A p \in db.players :
                p.name \in ui.shown.names <=>
                    /\ ResearchLevelOf(db, p, selected)
                           >= ResearchLevelOf(db, user, selected) + 1
                    /\ \A n \in others :
                           ResearchLevelOf(db, p, n) <= ResearchLevelOf(db, user, n)

\* C28: the table view_player_details has shown has one row per planet of the
\* selected player, under the planet's coordinates, holding the raidable
\* amounts of that planet's Resource rows and of no other planet.
C28_ShownCoordinate ==
    ui.shown.what = "details" =>
        LET planets == {q \in db.planets :
                           \E p \in db.players :
                               p.id = q.player_id /\ p.name = ui.shown.player}
            rows == ui.shown.rows
        IN  /\ DOMAIN rows = {q.coordinates : q \in planets}
            /\ \A q \in planets :
                /\ DOMAIN rows[q.coordinates].resources =
                       {r.type : r \in {s \in db.resources : s.planet_id = q.id}}
                /\ \A r \in db.resources :
                       r.planet_id = q.id =>
                           rows[q.coordinates].resources[r.type] = r.raidable

\* C29: the query menu's loop prints "Invalid choice" only for a choice that
\* is none of the options it offers.
C29_InvalidChoiceOnlyIfInvalid ==
    (ui.said = "invalid choice" /\ ui.by = "query") =>
        ui.choice \notin {"1", "2", "3", "4", "0", "b", "back", "e", "exit"}

\* C30: the program ends only by the answer 'y' to confirm_exit; any other
\* answer gives control back to the loop that asked; and no step of the menus
\* other than the reconciliation of entered reports changes the tables.
C30_ExitOnlyConfirmed ==
    [][/\ (ui'.at \in {"exited", "crashed"} /\ ui.at \notin {"exited", "crashed"})
            => (ui.at = "confirm" /\ ui'.input = "y" /\ ui'.at = "exited")
       /\ (ui.at = "confirm" /\ ui'.input # "y") => ui'.at = ui.from
       /\ ui.at # "update" => db' = db]_vars

====
